---- MODULE Spec2Model ----
(***************************************************************************)
(* A model of the configuration engine of xgfone/configmanager (go-config). *)
(* The repository holds several historical revisions of the engine side by  *)
(* side; the revisions that the checked properties are about are modelled   *)
(* as separate specifications over one set of variables:                    *)
(*                                                                          *)
(*   Spec   the Config of manager.go:25-735 with the OptGroup of            *)
(*          group.go:17-962 and the flag parser of parser.go:397-708        *)
(*          (parsers commit through the set-option callback);               *)
(*   SpecB  the Config of manager.go:736-1425 with the OptGroup of          *)
(*          unnamed/part_007 (parsers return maps that setOptions merges);  *)
(*   SpecG  the OptGroup of group.go:963-2173 (immediate and deferred       *)
(*          commits, relaxed registration);                                 *)
(*   SpecL  goroutines that update and read that OptGroup after Parse;      *)
(*   SpecR  the walk of registerStructByValue over nested structs;          *)
(*   SpecN  OptGroup.NewGroup;                                              *)
(*   SpecP  baseOpt.Parse of part_008, part_010 and opt.go;                 *)
(*   SpecF  propertyParser.Parse of part_013.                               *)
(*                                                                          *)
(* Strings that the code inspects (raw option values) are sequences of      *)
(* one-character strings, so that parsing and length checks are computed.   *)
(***************************************************************************)
EXTENDS Integers, Sequences, FiniteSets

\* ------------------------------------------------------------------------
\* Values (Go interface{} values that travel through the engine)
\* ------------------------------------------------------------------------

\* The nil interface value.
NilV == [k |-> "nil", s |-> <<>>, i |-> 0, b |-> FALSE]
StrV(x) == [k |-> "string", s |-> x, i |-> 0, b |-> FALSE]
IntV(n) == [k |-> "int", s |-> <<>>, i |-> n, b |-> FALSE]
Int64V(n) == [k |-> "int64", s |-> <<>>, i |-> n, b |-> FALSE]
BoolV(x) == [k |-> "bool", s |-> <<>>, i |-> 0, b |-> x]
\* A value of the integer type k (int8, int16, uint, uint8, uint16, uint64).
NumV(k, n) == [k |-> k, s |-> <<>>, i |-> n, b |-> FALSE]

\* Results of the conversions: (value, error).
Ok(v) == [err |-> FALSE, v |-> v]
Fail == [err |-> TRUE, v |-> NilV]

DigitChars == <<"0", "1", "2", "3", "4", "5", "6", "7", "8", "9">>

DigitVal(c) == CHOOSE d \in 0..9 : DigitChars[d + 1] = c

IsDigit(c) == \E d \in 0..9 : DigitChars[d + 1] = c

RECURSIVE DigitsToNat(_)
DigitsToNat(s) ==
    IF Len(s) = 0 THEN 0
    ELSE 10 * DigitsToNat(SubSeq(s, 1, Len(s) - 1)) + DigitVal(s[Len(s)])

AllDigits(s) == Len(s) > 0 /\ \A j \in 1..Len(s) : IsDigit(s[j])

\* strconv.ParseInt(t, 10, 64): an optional sign, then decimal digits.  The
\* digit strings of the model are short, so the 64-bit range error of ParseInt
\* is never met.
ParseInt(s) ==
    LET neg == Len(s) > 0 /\ s[1] = "-"
        signed == Len(s) > 0 /\ s[1] \in {"-", "+"}
        body == IF signed THEN Tail(s) ELSE s
    IN  IF ~AllDigits(body) THEN Fail
        ELSE IF neg THEN Ok(Int64V(0 - DigitsToNat(body)))
        ELSE Ok(Int64V(DigitsToNat(body)))

RECURSIVE NatToDigits(_)
NatToDigits(n) ==
    IF n < 10 THEN <<DigitChars[n + 1]>>
    ELSE Append(NatToDigits(n \div 10), DigitChars[(n % 10) + 1])

\* strconv.FormatInt(v, 10)
FormatInt(n) == IF n < 0 THEN <<"-">> \o NatToDigits(0 - n) ELSE NatToDigits(n)

TrueStr == <<"t", "r", "u", "e">>
FalseStr == <<"f", "a", "l", "s", "e">>

BoolTrueStrings ==
    { <<"t">>, <<"T">>, <<"1">>, <<"o", "n">>, <<"O", "n">>, <<"O", "N">>,
      TrueStr, <<"T", "r", "u", "e">>, <<"T", "R", "U", "E">> }

BoolFalseStrings ==
    { <<"f">>, <<"F">>, <<"0">>, <<"o", "f", "f">>, <<"O", "f", "f">>,
      <<"O", "F", "F">>, FalseStr, <<"F", "a", "l", "s", "e">>,
      <<"F", "A", "L", "S", "E">>, <<>> }

\* template.IsTrue negated: the zero value of each kind.
IsZero(v) ==
    CASE v.k = "nil" -> TRUE
      [] v.k = "bool" -> ~v.b
      [] v.k = "string" -> Len(v.s) = 0
      [] OTHER -> v.i = 0

ToBool(v) ==
    CASE v.k = "nil" -> Ok(BoolV(FALSE))
      [] v.k = "bool" -> Ok(v)
      [] v.k = "string" ->
            IF v.s \in BoolTrueStrings THEN Ok(BoolV(TRUE))
            ELSE IF v.s \in BoolFalseStrings THEN Ok(BoolV(FALSE))
            ELSE Fail
      [] OTHER -> Ok(BoolV(~IsZero(v)))

ToInt64(v) ==
    CASE v.k = "nil" -> Ok(Int64V(0))
      [] v.k = "bool" -> Ok(Int64V(IF v.b THEN 1 ELSE 0))
      [] v.k = "string" -> ParseInt(v.s)
      [] OTHER -> Ok(Int64V(v.i))

ToString(v) ==
    CASE v.k = "nil" -> Ok(StrV(<<>>))
      [] v.k = "string" -> Ok(v)
      [] v.k = "bool" -> Ok(StrV(IF v.b THEN TrueStr ELSE FalseStr))
      [] OTHER -> Ok(StrV(FormatInt(v.i)))

\* strconv.ParseUint(t, 10, 64): decimal digits without a sign.
ParseUint(s) ==
    IF ~AllDigits(s) THEN Fail ELSE Ok(NumV("uint64", DigitsToNat(s)))

\* ToUint64. uint64(t) of a negative integer t is t + 2^64, which is beyond
\* the integers of the checker: the integer values given to it are not
\* negative.
ToUint64(v) ==
    CASE v.k = "nil" -> Ok(NumV("uint64", 0))
      [] v.k = "bool" -> Ok(NumV("uint64", IF v.b THEN 1 ELSE 0))
      [] v.k = "string" -> ParseUint(v.s)
      [] OTHER -> Ok(NumV("uint64", v.i))

\* 2^w for the widths of the narrow integer types of the model.
TwoTo(w) == IF w = 8 THEN 256 ELSE 65536

\* The conversions saturating at the bounds of the type (C22).
ConvInt_Saturate(n, w) ==
    IF n > (TwoTo(w) \div 2) - 1 THEN (TwoTo(w) \div 2) - 1
    ELSE IF n < 0 - (TwoTo(w) \div 2) THEN 0 - (TwoTo(w) \div 2)
    ELSE n

\* The Go conversions intW(v.(int64)) and uintW(v.(uint64)) to a type of w
\* bits: the low w bits, read as a signed or an unsigned number.
ConvInt(n, w) == ((n + (TwoTo(w) \div 2)) % TwoTo(w)) - (TwoTo(w) \div 2)

ConvUint(n, w) == n % TwoTo(w)

\* The option types of the model (a subset of optType).
OptTypes == {"bool", "string", "int"}

\* The second switch of parseOpt: the 64-bit result v of the conversion
\* narrowed to the option's type; the other types keep v.
narrowOpt(v, type) ==
    CASE type = "int" -> IntV(v.i)
      [] type = "int8" -> NumV("int8", ConvInt(v.i, 8))
      [] type = "int16" -> NumV("int16", ConvInt(v.i, 16))
      [] type = "uint" -> NumV("uint", v.i)
      [] type = "uint8" -> NumV("uint8", ConvUint(v.i, 8))
      [] type = "uint16" -> NumV("uint16", ConvUint(v.i, 16))
      [] OTHER -> v

\* parseOpt of part_008 for the types of the model and for a type it does
\* not support (OTHER); int and uint have 64 bits.  The first switch converts
\* the input, the second one narrows the result.
parseOpt(data, type) ==
    LET r == CASE type = "bool" -> ToBool(data)
               [] type = "string" -> ToString(data)
               [] type \in {"int", "int8", "int16", "int64"} -> ToInt64(data)
               [] type \in {"uint", "uint8", "uint16", "uint64"} -> ToUint64(data)
               [] OTHER -> Fail
    IN  IF r.err THEN r ELSE Ok(narrowOpt(r.v, type))

\* toString of validators.go: only a string passes.
toString(v) == IF v.k = "string" THEN Ok(v) ELSE Fail

\* strLenValidator.Validate: TRUE when the validator returns an error.
StrLenRejects(vd, v) ==
    LET r == toString(v)
    IN  r.err \/ Len(r.v.s) > vd.max \/ Len(r.v.s) < vd.min

RECURSIVE ChainRejectsFrom(_, _, _)
ChainRejectsFrom(vs, j, v) ==
    IF j > Len(vs) THEN FALSE
    ELSE IF StrLenRejects(vs[j], v) THEN TRUE
    ELSE ChainRejectsFrom(vs, j + 1, v)

\* The loop over GetValidators(): the first failure stops the chain.
ChainRejects(vs, v) == ChainRejectsFrom(vs, 1, v)

\* ------------------------------------------------------------------------
\* Bounds and the inputs of the model
\* ------------------------------------------------------------------------

\* The largest number of options registered in one Config.
MaxOpts == 2

\* DefaultGroupName (group.go:27).
DefaultGroupName == "DEFAULT"

\* Group names given by callers ("" addresses the default group).
GroupArgs == {"", "g"}

\* Names given to SetDefaultGroupName.
DefaultNameArgs == {"g"}

OptNames == {"ip", "yes"}

\* An 11-character string.
Long11 == <<"a", "b", "c", "d", "e", "f", "g", "h", "i", "j", "k">>

\* NewStrLenValidator(1, 10), as in ExampleConfig.
StrLen1to10 == [min |-> 1, max |-> 10]

\* The option descriptors callers register: name, type, default, validators.
\* A default of NilV is an Opt whose Default() returns nil, as NewStrOpt and
\* NewBoolOpt build for a nil default ("If no default, it's nil") and as
\* registerStructByValue builds for a field without a default tag.
OptCatalog ==
    { [name |-> "ip", type |-> "string", default |-> NilV,
       validators |-> <<StrLen1to10>>],
      [name |-> "ip", type |-> "string", default |-> StrV(Long11),
       validators |-> <<StrLen1to10>>],
      [name |-> "yes", type |-> "bool", default |-> NilV, validators |-> <<>>] }

\* The structs given to RegisterStruct: one settable leaf field with its tags,
\* as in struct { Yes bool `cli:"1" default:"true"` }.
StructCatalog ==
    { [field |-> "Yes", lower |-> "yes", type |-> "bool", cliTag |-> TRUE,
       defaultTag |-> TrueStr] }

\* Raw strings that the sources supply.
RawValues == { <<"1">>, Long11 }

\* The strings flag.Value.String() yields for a boolean flag that was set.
BoolFlagStrings == { TrueStr, FalseStr }

\* The names of the parsers added with AddParser.
ParserNames == {"ini", "env"}

\* The positional arguments left by the flag parser.
RestArgs == { <<"aa", "bb">> }

\* ------------------------------------------------------------------------
\* State
\* ------------------------------------------------------------------------

VARIABLES
    parsed,            \* Config.parsed
    isRequired,        \* Config.isRequired (NotEmpty in manager.go:823)
    defaultGroupName,  \* Config.defaultGroupName
    parsers,           \* Config.parsers, by name
    args,              \* Config.args
    groups,            \* Config.groups: name -> OptGroup
    pc,                \* where the running Parse call is: idle, parser, check
    pidx,              \* Parse's loop index over the parsers (0 outside Parse)
    optErr,            \* Parse's local optErr: TRUE when non-nil
    ret                \* the last call of the API: its name, its outcome and,
                       \* of a Parse, what the command line gave (in SpecB:
                       \* what the source that ran last gave), whether a
                       \* source failed or had a commit rejected, whether a
                       \* source addressed an option that is not registered,
                       \* the (group, option) the returned error names, and
                       \* the arguments (name, value) of a deferSetOptValue
                       \* or (type, data) of a baseOpt.Parse, and the value
                       \* a baseOpt.Parse returned

\* The goroutines that use a group after Parse (SpecL).
VARIABLES
    watch,             \* Config.watch is set (non-nil)
    lock,              \* OptGroup.lock: the holder of the write lock (0: none)
                       \* and the holders of a read lock
    gor,               \* the goroutines: the call each one runs, where it is
                       \* in it, and its locals
    committed,         \* the stores into OptGroup.values, in the order made
    watched            \* the calls of Config.watch, in the order made

\* The walk of registerStructByValue over a struct (SpecR).
VARIABLES
    walk               \* the calls of registerStructByValue that have not
                       \* returned (parent, the fields left), innermost
                       \* first, and the nested-struct fields handled so far;
                       \* in SpecN the calls of OptGroup.NewGroup that have
                       \* not returned (the receiver's name, the argument)

cvars == <<watch, lock, gor, committed, watched, walk>>

vars == <<parsed, isRequired, defaultGroupName, parsers, args, groups, pc,
          pidx, optErr, ret, watch, lock, gor, committed, watched, walk>>

EmptyMap == [x \in {} |-> NilV]

Put(f, key, v) == [x \in DOMAIN f \cup {key} |-> IF x = key THEN v ELSE f[x]]

Ret(call, out) ==
    [call |-> call, out |-> out, cli |-> EmptyMap, rejected |-> FALSE,
     unknown |-> FALSE, named |-> <<>>, arg |-> <<>>, val |-> NilV]

RetParse(out, cargs, rej) ==
    [call |-> "Parse", out |-> out, cli |-> cargs, rejected |-> rej,
     unknown |-> FALSE, named |-> <<>>, arg |-> <<>>, val |-> NilV]

\* No goroutine besides the caller's, no watch callback.
InitC ==
    /\ watch = FALSE
    /\ lock = [w |-> 0, r |-> {}]
    /\ gor = <<>>
    /\ committed = <<>>
    /\ watched = <<>>
    /\ walk = [stack |-> <<>>, done |-> <<>>]

Init ==
    /\ parsed = FALSE
    /\ isRequired = FALSE
    /\ defaultGroupName = DefaultGroupName
    /\ parsers = <<>>
    /\ args = <<>>
    /\ groups = EmptyMap
    /\ pc = "idle"
    /\ pidx = 0
    /\ optErr = FALSE
    /\ ret = Ret("NewConfig", "ok")
    /\ InitC

\* All the (group, option) pairs registered in gs.
Slots(gs) == UNION { { <<g, n>> : n \in DOMAIN gs[g].opts } : g \in DOMAIN gs }

NumOpts(gs) == Cardinality(Slots(gs))

\* ------------------------------------------------------------------------
\* The OptGroup of group.go:17-962
\* ------------------------------------------------------------------------

NewOptGroup == [opts |-> EmptyMap, values |-> EmptyMap, fields |-> EmptyMap]

\* The zero value of a struct field of the given type.
ZeroOf(type) ==
    CASE type = "bool" -> BoolV(FALSE)
      [] type = "string" -> StrV(<<>>)
      [] OTHER -> IntV(0)

\* setOptValue without the field.Set of the bound struct field (C16).
setOptValue_NoFieldSet(g, name, value) ==
    IF value = NilV THEN [err |-> FALSE, g |-> g]
    ELSE IF name \notin DOMAIN g.opts THEN [err |-> TRUE, g |-> g]
    ELSE LET o == g.opts[name].opt
             r == parseOpt(value, o.type)
         IN  IF r.err THEN [err |-> TRUE, g |-> g]
             ELSE IF ChainRejects(o.validators, r.v) THEN [err |-> TRUE, g |-> g]
             ELSE [err |-> FALSE, g |-> [g EXCEPT !.values = Put(@, name, r.v)]]

\* OptGroup.setOptValue: (error, the group afterwards).
setOptValue(g, name, value) ==
    IF value = NilV THEN [err |-> FALSE, g |-> g]
    ELSE IF name \notin DOMAIN g.opts THEN [err |-> TRUE, g |-> g]
    ELSE LET o == g.opts[name].opt
             r == parseOpt(value, o.type)
         IN  IF r.err THEN [err |-> TRUE, g |-> g]
             ELSE IF ChainRejects(o.validators, r.v) THEN [err |-> TRUE, g |-> g]
             ELSE [err |-> FALSE,
                   g |-> [g EXCEPT !.values = Put(@, name, r.v),
                                   !.fields = IF name \in DOMAIN @
                                              THEN Put(@, name, r.v) ELSE @]]

\* The default stored as it is, without setOptValue (C10).
checkRequiredEntry_RawDefault(g, name, required) ==
    IF name \in DOMAIN g.values THEN [err |-> FALSE, g |-> g, named |-> ""]
    ELSE IF g.opts[name].opt.default # NilV
         THEN [err |-> FALSE,
               g |-> [g EXCEPT !.values = Put(@, name, g.opts[name].opt.default)],
               named |-> ""]
    ELSE [err |-> required, g |-> g, named |-> IF required THEN name ELSE ""]

\* The option named by the error of checkRequiredOption for an option
\* without value, with the required policy off (C11).
checkRequiredEntry_NotRequired(g, name, required) ==
    IF name \in DOMAIN g.values THEN [err |-> FALSE, g |-> g, named |-> ""]
    ELSE IF g.opts[name].opt.default # NilV
         THEN LET r == setOptValue(g, name, g.opts[name].opt.default)
              IN  [err |-> r.err, g |-> r.g, named |-> ""]
    ELSE [err |-> FALSE, g |-> g, named |-> ""]

\* The body of the loop of OptGroup.checkRequiredOption for one option:
\* (error, the group afterwards, the option the error names as having no
\* value).
checkRequiredEntry(g, name, required) ==
    IF name \in DOMAIN g.values THEN [err |-> FALSE, g |-> g, named |-> ""]
    ELSE IF g.opts[name].opt.default # NilV
         THEN LET r == setOptValue(g, name, g.opts[name].opt.default)
              IN  [err |-> r.err, g |-> r.g, named |-> ""]
    ELSE [err |-> required, g |-> g, named |-> IF required THEN name ELSE ""]

\* OptGroup.registerOpt: (panic, the group afterwards).
registerOpt(g, cli, opt) ==
    IF opt.name \in DOMAIN g.opts THEN [panic |-> TRUE, g |-> g]
    ELSE [panic |-> FALSE,
          g |-> [g EXCEPT !.opts = Put(@, opt.name, [opt |-> opt, isCli |-> cli])]]

\* OptGroup.registerStruct for a struct of one leaf field without a group tag.
registerStruct(g, st) ==
    LET d == IF st.defaultTag = <<>> THEN Ok(NilV)
             ELSE parseOpt(StrV(st.defaultTag), st.type)
        opt == [name |-> st.lower, type |-> st.type, default |-> d.v,
                validators |-> <<>>]
        r == registerOpt(g, st.cliTag, opt)
    IN  IF d.err \/ r.panic THEN [panic |-> TRUE, g |-> g]
        ELSE [panic |-> FALSE,
              g |-> [r.g EXCEPT !.fields = Put(@, st.lower, ZeroOf(st.type))]]

\* ------------------------------------------------------------------------
\* The Config of manager.go:25-735
\* ------------------------------------------------------------------------

\* checkIsParsed without the guard of the writing calls (C7).
checkIsParsed_NoWriteGuard(p) ==
    IF ~p /\ ~parsed THEN "panic:ErrNotParsed" ELSE "ok"

\* checkIsParsed without the guard of the reading calls (C8).
checkIsParsed_NoReadGuard(p) ==
    IF p /\ parsed THEN "panic:ErrParsed" ELSE "ok"

\* Config.checkIsParsed(p): the error it panics with, or "ok".
checkIsParsed(p) ==
    IF p /\ parsed THEN "panic:ErrParsed"
    ELSE IF ~p /\ ~parsed THEN "panic:ErrNotParsed"
    ELSE "ok"

getGroupName(name) == IF name = "" THEN defaultGroupName ELSE name

\* Config.getGroupByName: the group map with the group created when missing.
getGroupByName(gs, name) ==
    IF getGroupName(name) \in DOMAIN gs THEN gs
    ELSE Put(gs, getGroupName(name), NewOptGroup)

RegisterCallName(cli) == IF cli THEN "RegisterCliOpt" ELSE "RegisterOpt"

\* Config.registerOpt, through RegisterOpt (cli FALSE) and RegisterCliOpt.
RegisterOpt(group, cli, opt) ==
    /\ pc = "idle"
    /\ LET chk == checkIsParsed(TRUE)
           gname == getGroupName(group)
           gs1 == getGroupByName(groups, group)
           r == registerOpt(gs1[gname], cli, opt)
       IN  IF chk # "ok"
           THEN /\ ret' = Ret(RegisterCallName(cli), chk)
                /\ UNCHANGED groups
           ELSE /\ r.panic \/ NumOpts(groups) < MaxOpts
                /\ groups' = [gs1 EXCEPT ![gname] = r.g]
                /\ ret' = Ret(RegisterCallName(cli),
                              IF r.panic THEN "panic:registered" ELSE "ok")
    /\ UNCHANGED <<parsed, isRequired, defaultGroupName, parsers, args, pc,
                   pidx, optErr>>
    /\ UNCHANGED cvars

\* Config.RegisterStruct
RegisterStruct(group, st) ==
    /\ pc = "idle"
    /\ LET chk == checkIsParsed(TRUE)
           gname == getGroupName(group)
           gs1 == getGroupByName(groups, group)
           r == registerStruct(gs1[gname], st)
       IN  IF chk # "ok"
           THEN /\ ret' = Ret("RegisterStruct", chk)
                /\ UNCHANGED groups
           ELSE /\ r.panic \/ NumOpts(groups) < MaxOpts
                /\ groups' = [gs1 EXCEPT ![gname] = r.g]
                /\ ret' = Ret("RegisterStruct",
                              IF r.panic THEN "panic:registered" ELSE "ok")
    /\ UNCHANGED <<parsed, isRequired, defaultGroupName, parsers, args, pc,
                   pidx, optErr>>
    /\ UNCHANGED cvars

\* Config.AddParser putting the new parser in front of the list (C18).
AddParser_Prepend(name) ==
    /\ pc = "idle"
    /\ LET chk == checkIsParsed(TRUE)
       IN  IF chk # "ok"
           THEN ret' = Ret("AddParser", chk) /\ UNCHANGED parsers
           ELSE IF \E j \in 1..Len(parsers) : parsers[j] = name
           THEN ret' = Ret("AddParser", "panic:added") /\ UNCHANGED parsers
           ELSE ret' = Ret("AddParser", "ok") /\ parsers' = <<name>> \o parsers
    /\ UNCHANGED <<parsed, isRequired, defaultGroupName, args, groups, pc,
                   pidx, optErr>>
    /\ UNCHANGED cvars

\* Config.AddParser
AddParser(name) ==
    /\ pc = "idle"
    /\ LET chk == checkIsParsed(TRUE)
       IN  IF chk # "ok"
           THEN ret' = Ret("AddParser", chk) /\ UNCHANGED parsers
           ELSE IF \E j \in 1..Len(parsers) : parsers[j] = name
           THEN ret' = Ret("AddParser", "panic:added") /\ UNCHANGED parsers
           ELSE ret' = Ret("AddParser", "ok") /\ parsers' = Append(parsers, name)
    /\ UNCHANGED <<parsed, isRequired, defaultGroupName, args, groups, pc,
                   pidx, optErr>>
    /\ UNCHANGED cvars

\* Config.SetRequired
SetRequired ==
    /\ pc = "idle"
    /\ LET chk == checkIsParsed(TRUE)
       IN  IF chk # "ok"
           THEN ret' = Ret("SetRequired", chk) /\ UNCHANGED isRequired
           ELSE ret' = Ret("SetRequired", "ok") /\ isRequired' = TRUE
    /\ UNCHANGED <<parsed, defaultGroupName, parsers, args, groups, pc, pidx,
                   optErr>>
    /\ UNCHANGED cvars

\* Config.SetDefaultGroupName
SetDefaultGroupName(name) ==
    /\ pc = "idle"
    /\ LET chk == checkIsParsed(TRUE)
       IN  IF chk # "ok"
           THEN ret' = Ret("SetDefaultGroupName", chk)
                /\ UNCHANGED defaultGroupName
           ELSE ret' = Ret("SetDefaultGroupName", "ok")
                /\ defaultGroupName' = name
    /\ UNCHANGED <<parsed, isRequired, parsers, args, groups, pc, pidx,
                   optErr>>
    /\ UNCHANGED cvars

\* ------------------------------------------------------------------------
\* The flag parser of parser.go:471-555
\* ------------------------------------------------------------------------

CliSlots(gs) == { sl \in Slots(gs) : gs[sl[1]].opts[sl[2]].isCli }

OptOf(gs, sl) == gs[sl[1]].opts[sl[2]].opt

\* The command lines of the model: for every registered flag either no value
\* (NilV: the flag is not on the command line) or the string of its value.
CliInputs(gs) ==
    { f \in [CliSlots(gs) ->
                {NilV} \cup { StrV(x) : x \in RawValues \cup BoolFlagStrings }] :
        \A sl \in CliSlots(gs) :
            \/ f[sl] = NilV
            \/ IF OptOf(gs, sl).type = "bool"
               THEN f[sl].s \in BoolFlagStrings
               ELSE f[sl].s \in RawValues }

\* The position of a flag name in the lexical order flag.Visit follows: the
\* flags of the default group carry no prefix and sort after "DEFAULT_..."
\* and "g_...".
FlagKey(sl) ==
    (IF sl[1] = defaultGroupName THEN 30 ELSE IF sl[1] = "DEFAULT" THEN 10 ELSE 20)
    + (IF sl[2] = "ip" THEN 1 ELSE 2)

RECURSIVE SortFlags(_)
SortFlags(S) ==
    IF S = {} THEN <<>>
    ELSE LET m == CHOOSE x \in S : \A y \in S : FlagKey(x) <= FlagKey(y)
         IN  <<m>> \o SortFlags(S \ {m})

\* The value a flag holds when the command line does not set it: the default
\* it was registered with (flagSet.Bool / flagSet.String).
FlagDefaultString(opt) ==
    IF opt.type = "bool"
    THEN StrV(IF opt.default # NilV /\ opt.default.b THEN TrueStr ELSE FalseStr)
    ELSE IF opt.default = NilV THEN StrV(<<>>) ELSE ToString(opt.default).v

\* flagSet.VisitAll in place of flagSet.Visit: every registered flag, the
\* unset ones with the default they were registered with (C4).
Visit_All(gs, cargs) ==
    LET ord == SortFlags(DOMAIN cargs)
    IN  [j \in 1..Len(ord) |->
            [g |-> ord[j][1], n |-> ord[j][2],
             v |-> IF cargs[ord[j]] # NilV THEN cargs[ord[j]]
                   ELSE FlagDefaultString(OptOf(gs, ord[j]))]]

\* flagSet.Visit: the flags that were set, in lexical order, each with the
\* group, the option and fg.Value.String().
Visit(gs, cargs) ==
    LET ord == SortFlags({ sl \in DOMAIN cargs : cargs[sl] # NilV })
    IN  [j \in 1..Len(ord) |-> [g |-> ord[j][1], n |-> ord[j][2], v |-> cargs[ord[j]]]]

\* The closure setGroupOption of Config.Parse (manager.go:104-106).
setGroupOption(gs, gname, name, value) ==
    LET gs1 == getGroupByName(gs, gname)
        gn == getGroupName(gname)
        r == setOptValue(gs1[gn], name, value)
    IN  [err |-> r.err, gs |-> [gs1 EXCEPT ![gn] = r.g],
         unknown |-> value # NilV /\ name \notin DOMAIN gs1[gn].opts]

\* The calls of setGroupOption made from flagSet.Visit, in order: the groups
\* afterwards, the final optErr, and whether any call failed.
RECURSIVE RunCommits(_, _, _, _, _)
RunCommits(gs, cs, j, oe, rej) ==
    IF j > Len(cs) THEN [gs |-> gs, optErr |-> oe, rej |-> rej]
    ELSE LET r == setGroupOption(gs, cs[j].g, cs[j].n, cs[j].v)
         IN  RunCommits(r.gs, cs, j + 1, r.err, rej \/ r.err)

\* The command lines given to Parse: one that the flag package rejects
\* (flagSet.Parse returns an error), and the ones that set registered flags.
\* A Config that is parsed already does not look at its arguments.
BadCommandLine == [bad |-> TRUE, flags |-> EmptyMap]

CommandLines(gs) ==
    IF parsed THEN {BadCommandLine}
    ELSE {BadCommandLine} \cup { [bad |-> FALSE, flags |-> f] : f \in CliInputs(gs) }

\* Config.Parse setting parsed only when the CLI parser has succeeded (C28).
Parse_ParsedOnSuccess(cmd, rest) ==
    /\ pc = "idle"
    /\ IF checkIsParsed(TRUE) # "ok"
       THEN /\ ret' = Ret("Parse", checkIsParsed(TRUE))
            /\ UNCHANGED <<parsed, args, groups, pc, pidx, optErr>>
       ELSE LET gs0 == getGroupByName(groups, defaultGroupName)
                cargs == cmd.flags
                r == RunCommits(gs0, Visit(gs0, cargs), 1, FALSE, FALSE)
            IN  /\ parsed' = ~(cmd.bad \/ r.optErr)
                /\ IF cmd.bad
                   THEN /\ groups' = gs0
                        /\ ret' = RetParse("error", cargs, TRUE)
                        /\ UNCHANGED <<args, pc, pidx, optErr>>
                   ELSE /\ groups' = r.gs
                        /\ args' = rest
                        /\ IF r.optErr
                           THEN /\ ret' = RetParse("error", cargs, r.rej)
                                /\ UNCHANGED <<pc, pidx, optErr>>
                           ELSE /\ ret' = RetParse("running", cargs, r.rej)
                                /\ pc' = IF Len(parsers) > 0 THEN "parser" ELSE "check"
                                /\ pidx' = 1
                                /\ optErr' = FALSE
    /\ UNCHANGED <<isRequired, defaultGroupName, parsers>>
    /\ UNCHANGED cvars

\* Config.Parse up to the end of the CLI parser (manager.go:92-114).
Parse(cmd, rest) ==
    /\ pc = "idle"
    /\ IF checkIsParsed(TRUE) # "ok"
       THEN /\ ret' = Ret("Parse", checkIsParsed(TRUE))
            /\ UNCHANGED <<parsed, args, groups, pc, pidx, optErr>>
       ELSE LET gs0 == getGroupByName(groups, defaultGroupName)
                cargs == cmd.flags
                r == RunCommits(gs0, Visit(gs0, cargs), 1, FALSE, FALSE)
            IN  /\ parsed' = TRUE
                /\ IF cmd.bad
                   THEN /\ groups' = gs0
                        /\ ret' = RetParse("error", cargs, TRUE)
                        /\ UNCHANGED <<args, pc, pidx, optErr>>
                   ELSE /\ groups' = r.gs
                        /\ args' = rest
                        /\ IF r.optErr
                           THEN /\ ret' = RetParse("error", cargs, r.rej)
                                /\ UNCHANGED <<pc, pidx, optErr>>
                           ELSE /\ ret' = RetParse("running", cargs, r.rej)
                                /\ pc' = IF Len(parsers) > 0 THEN "parser" ELSE "check"
                                /\ pidx' = 1
                                /\ optErr' = FALSE
    /\ UNCHANGED <<isRequired, defaultGroupName, parsers>>
    /\ UNCHANGED cvars

\* A parser added with AddParser calls setOptionValue (manager.go:104-106).
ParserSet(gname, name, value) ==
    /\ pc = "parser"
    /\ LET r == setGroupOption(groups, gname, name, value)
       IN  /\ groups' = r.gs
           /\ optErr' = r.err
           /\ ret' = [RetParse("running", ret.cli, ret.rejected \/ r.err)
                          EXCEPT !.unknown = ret.unknown \/ r.unknown]
    /\ UNCHANGED <<parsed, isRequired, defaultGroupName, parsers, args, pc,
                   pidx>>
    /\ UNCHANGED cvars

\* The running parser returns (manager.go:123-130).
ParserReturn(err) ==
    /\ pc = "parser"
    /\ IF err \/ optErr
       THEN /\ pc' = "idle"
            /\ pidx' = 0
            /\ optErr' = FALSE
            /\ ret' = RetParse("error", ret.cli, TRUE)
       ELSE /\ pc' = IF pidx < Len(parsers) THEN "parser" ELSE "check"
            /\ pidx' = pidx + 1
            /\ UNCHANGED <<ret, optErr>>
    /\ UNCHANGED <<parsed, isRequired, defaultGroupName, parsers, args, groups>>
    /\ UNCHANGED cvars

\* The orders in which Go may range over the groups and, in each group, over
\* its options.
Orders(S) ==
    { f \in [1..Cardinality(S) -> S] :
        /\ \A a, b \in DOMAIN f : a # b => f[a] # f[b]
        /\ \A a, b, c \in DOMAIN f :
              (a < b /\ b < c /\ f[a][1] = f[c][1]) => f[b][1] = f[a][1] }

\* The loops of manager.go:133-137 and group.go:145-159 in the order ord.
RECURSIVE checkRequiredOption(_, _, _, _)
checkRequiredOption(gs, ord, j, required) ==
    IF j > Len(ord) THEN [err |-> FALSE, gs |-> gs, named |-> <<>>]
    ELSE LET r == checkRequiredEntry(gs[ord[j][1]], ord[j][2], required)
             gs1 == [gs EXCEPT ![ord[j][1]] = r.g]
         IN  IF r.err
             THEN [err |-> TRUE, gs |-> gs1,
                   named |-> IF r.named = "" THEN <<>> ELSE <<ord[j][1], r.named>>]
             ELSE checkRequiredOption(gs1, ord, j + 1, required)

\* The end of Config.Parse (manager.go:132-139).
ParseCheck(ord) ==
    /\ pc = "check"
    /\ LET r == checkRequiredOption(groups, ord, 1, isRequired)
       IN  /\ groups' = r.gs
           /\ ret' = [RetParse(IF r.err THEN "error" ELSE "nil", ret.cli,
                                ret.rejected)
                          EXCEPT !.unknown = ret.unknown, !.named = r.named]
    /\ pc' = "idle"
    /\ pidx' = 0
    /\ UNCHANGED <<parsed, isRequired, defaultGroupName, parsers, args,
                   optErr>>
    /\ UNCHANGED cvars

\* ------------------------------------------------------------------------
\* Read accessors of manager.go:236-245 and 380-735
\* ------------------------------------------------------------------------

\* Config.Group
Group(group) ==
    /\ pc = "idle"
    /\ ret' = Ret("Group",
                  IF checkIsParsed(FALSE) # "ok" THEN checkIsParsed(FALSE)
                  ELSE IF getGroupName(group) \in DOMAIN groups THEN "ok"
                  ELSE "panic:nogroup")
    /\ UNCHANGED <<parsed, isRequired, defaultGroupName, parsers, args, groups,
                   pc, pidx, optErr>>
    /\ UNCHANGED cvars

\* Config.Groups and Config.Args
GroupsOrArgs(call) ==
    /\ pc = "idle"
    /\ ret' = Ret(call, checkIsParsed(FALSE))
    /\ UNCHANGED <<parsed, isRequired, defaultGroupName, parsers, args, groups,
                   pc, pidx, optErr>>
    /\ UNCHANGED cvars

\* OptGroup.getValue (group.go:285-400): "ok" or "error".
getValue(g, name, type) ==
    IF name \notin DOMAIN g.values THEN "error"
    ELSE IF g.values[name].k = type THEN "ok" ELSE "error"

\* The typed accessors of Config: TypeE, TypeD and Type of the default group.
TypedAccessor(call, name, type) ==
    /\ pc = "idle"
    /\ ret' = Ret(call,
                  IF checkIsParsed(FALSE) # "ok" THEN checkIsParsed(FALSE)
                  ELSE IF defaultGroupName \notin DOMAIN groups THEN "panic:nogroup"
                  ELSE LET e == getValue(groups[defaultGroupName], name, type)
                       IN  CASE call = "TypeE" -> e
                             [] call = "TypeD" -> "ok"
                             [] OTHER -> IF e = "ok" THEN "ok" ELSE "panic:value")
    /\ UNCHANGED <<parsed, isRequired, defaultGroupName, parsers, args, groups,
                   pc, pidx, optErr>>
    /\ UNCHANGED cvars

ParserValues == {NilV} \cup { StrV(x) : x \in RawValues }

Next ==
    \/ \E g \in GroupArgs, cli \in BOOLEAN, o \in OptCatalog : RegisterOpt(g, cli, o)
    \/ \E g \in GroupArgs, st \in StructCatalog : RegisterStruct(g, st)
    \/ \E p \in ParserNames : AddParser(p)
    \/ SetRequired
    \/ \E n \in DefaultNameArgs : SetDefaultGroupName(n)
    \/ \E cmd \in CommandLines(groups), rest \in RestArgs : Parse(cmd, rest)
    \/ \E g \in GroupArgs, n \in OptNames, v \in ParserValues : ParserSet(g, n, v)
    \/ \E e \in BOOLEAN : ParserReturn(e)
    \/ \E ord \in Orders(Slots(groups)) : ParseCheck(ord)
    \/ \E g \in GroupArgs : Group(g)
    \/ \E c \in {"Groups", "Args"} : GroupsOrArgs(c)
    \/ \E c \in {"TypeE", "TypeD", "Type"}, n \in OptNames, t \in {"bool", "string"} :
          TypedAccessor(c, n, t)

Spec == Init /\ [][Next]_vars

\* ------------------------------------------------------------------------
\* The Config of manager.go:736-1425 with the OptGroup of unnamed/part_007
\* (SpecB). Its CLI parser and its parsers return what they found as a map
\* from group to option to string, and Parse commits it with setOptions.
\* isRequired stands for the field NotEmpty, defaultGroupName for defaultGroup.
\* ------------------------------------------------------------------------

NewOptGroupB == [opts |-> EmptyMap, values |-> EmptyMap]

\* The option descriptors registered in SpecB.
OptCatalogB ==
    OptCatalog \cup
    { [name |-> "yes", type |-> "bool", default |-> BoolV(TRUE),
       validators |-> <<>>] }

\* The strings a source returns for an option.
SourceValues == RawValues \cup {FalseStr}

\* What a source returns: an error, or the groups it found and, for their
\* options, the string it found (NilV: none).
SourceError == [err |-> TRUE, groups |-> {}, vals |-> EmptyMap]

SourceResults(gs) ==
    {SourceError} \cup
    UNION { { [err |-> FALSE, groups |-> P, vals |-> f] :
                f \in [{ sl \in Slots(gs) : sl[1] \in P } ->
                          {NilV} \cup { StrV(x) : x \in SourceValues }] } :
            P \in SUBSET (DOMAIN gs) }

\* OptGroup.setOptValue of part_007: the value is coerced already.
setOptValueB(g, name, value, notEmpty) ==
    IF notEmpty /\ (value = NilV \/ IsZero(value)) THEN [err |-> TRUE, g |-> g]
    ELSE IF ChainRejects(g.opts[name].opt.validators, value)
    THEN [err |-> TRUE, g |-> g]
    ELSE [err |-> FALSE, g |-> [g EXCEPT !.values = Put(@, name, value)]]

\* The body of the loop of OptGroup.setOptions (part_007) for one option;
\* options: the strings the source found for the options of the group.
setOptionsEntry(g, name, options, notEmpty) ==
    IF name \in DOMAIN options
    THEN LET r == parseOpt(options[name], g.opts[name].opt.type)
         IN  IF r.err THEN [err |-> TRUE, g |-> g]
             ELSE setOptValueB(g, name, r.v, notEmpty)
    ELSE IF g.opts[name].opt.default # NilV
         THEN setOptValueB(g, name, g.opts[name].opt.default, notEmpty)
    ELSE [err |-> FALSE, g |-> g]

\* The options map a source result holds for the group gname.
OptionsOf(res, gname) ==
    LET S == { sl \in DOMAIN res.vals : sl[1] = gname /\ res.vals[sl] # NilV }
    IN  [n \in { sl[2] : sl \in S } |-> res.vals[<<gname, n>>]]

\* The loop of Config.Parse over the groups of a source result, with
\* OptGroup.setOptions on each registered one, in the order ord.
RECURSIVE setOptions(_, _, _, _, _)
setOptions(gs, res, ord, j, notEmpty) ==
    IF j > Len(ord) THEN [err |-> FALSE, gs |-> gs]
    ELSE IF ord[j][1] \notin res.groups
         THEN setOptions(gs, res, ord, j + 1, notEmpty)
    ELSE LET r == setOptionsEntry(gs[ord[j][1]], ord[j][2],
                                  OptionsOf(res, ord[j][1]), notEmpty)
             gs1 == [gs EXCEPT ![ord[j][1]] = r.g]
         IN  IF r.err THEN [err |-> TRUE, gs |-> gs1]
             ELSE setOptions(gs1, res, ord, j + 1, notEmpty)

\* The body of the loop of OptGroup.checkRequiredOption (part_007).
checkRequiredEntryB(g, name, notEmpty) ==
    IF name \in DOMAIN g.values THEN [err |-> FALSE, g |-> g]
    ELSE IF g.opts[name].opt.default # NilV
         THEN setOptValueB(g, name, g.opts[name].opt.default, notEmpty)
    ELSE [err |-> notEmpty, g |-> g]

RECURSIVE checkRequiredOptionB(_, _, _, _)
checkRequiredOptionB(gs, ord, j, notEmpty) ==
    IF j > Len(ord) THEN [err |-> FALSE, gs |-> gs]
    ELSE LET r == checkRequiredEntryB(gs[ord[j][1]], ord[j][2], notEmpty)
             gs1 == [gs EXCEPT ![ord[j][1]] = r.g]
         IN  IF r.err THEN [err |-> TRUE, gs |-> gs1]
             ELSE checkRequiredOptionB(gs1, ord, j + 1, notEmpty)

\* OptGroup.registerOpt of part_007: (panic, the group afterwards).
registerOptB(g, cli, opt) ==
    IF opt.name \in DOMAIN g.opts THEN [panic |-> TRUE, g |-> g]
    ELSE [panic |-> FALSE,
          g |-> [g EXCEPT !.opts = Put(@, opt.name, [opt |-> opt, isCli |-> cli])]]

getGroupByNameB(gs, name) ==
    IF getGroupName(name) \in DOMAIN gs THEN gs
    ELSE Put(gs, getGroupName(name), NewOptGroupB)

\* Config.registerOpt (manager.go:1076-1082), through RegisterOpt and
\* RegisterCliOpt.
RegisterOptB(group, cli, opt) ==
    /\ pc = "idle"
    /\ LET gname == getGroupName(group)
           gs1 == getGroupByNameB(groups, group)
           r == registerOptB(gs1[gname], cli, opt)
       IN  IF parsed
           THEN /\ ret' = Ret(RegisterCallName(cli), "panic:ErrParsed")
                /\ UNCHANGED groups
           ELSE /\ r.panic \/ NumOpts(groups) < MaxOpts
                /\ groups' = [gs1 EXCEPT ![gname] = r.g]
                /\ ret' = Ret(RegisterCallName(cli),
                              IF r.panic THEN "panic:registered" ELSE "ok")
    /\ UNCHANGED <<parsed, isRequired, defaultGroupName, parsers, args, pc,
                   pidx, optErr>>
    /\ UNCHANGED cvars

\* Config.AddParser (manager.go:976-990)
AddParserB(name) ==
    /\ pc = "idle"
    /\ IF parsed
       THEN ret' = Ret("AddParser", "panic:ErrParsed") /\ UNCHANGED parsers
       ELSE IF \E j \in 1..Len(parsers) : parsers[j] = name
       THEN ret' = Ret("AddParser", "panic:added") /\ UNCHANGED parsers
       ELSE ret' = Ret("AddParser", "ok") /\ parsers' = Append(parsers, name)
    /\ UNCHANGED <<parsed, isRequired, defaultGroupName, args, groups, pc,
                   pidx, optErr>>
    /\ UNCHANGED cvars

\* The caller sets the field Config.NotEmpty before it calls Parse.
SetNotEmpty ==
    /\ pc = "idle"
    /\ ~parsed
    /\ isRequired' = TRUE
    /\ ret' = Ret("NotEmpty", "ok")
    /\ UNCHANGED <<parsed, defaultGroupName, parsers, args, groups, pc, pidx,
                   optErr>>
    /\ UNCHANGED cvars

\* Config.SetDefaultGroup
SetDefaultGroup(name) ==
    /\ pc = "idle"
    /\ IF parsed
       THEN ret' = Ret("SetDefaultGroup", "panic:ErrParsed")
            /\ UNCHANGED defaultGroupName
       ELSE ret' = Ret("SetDefaultGroup", "ok") /\ defaultGroupName' = name
    /\ UNCHANGED <<parsed, isRequired, parsers, args, groups, pc, pidx,
                   optErr>>
    /\ UNCHANGED cvars


\* Config.Parse up to the end of the CLI parser (manager.go:899-931); res:
\* what the CLI parser returns, ord: the order of the range loops.
ParseB(res, rest, ord) ==
    /\ pc = "idle"
    /\ IF parsed
       THEN /\ ret' = Ret("Parse", "ErrParsed")
            /\ UNCHANGED <<parsed, args, groups, pc, pidx>>
       ELSE LET gs0 == getGroupByNameB(groups, defaultGroupName)
                r == setOptions(gs0, res, ord, 1, isRequired)
            IN  /\ parsed' = TRUE
                /\ IF res.err
                   THEN /\ groups' = gs0
                        /\ ret' = RetParse("error", res.vals, TRUE)
                        /\ UNCHANGED <<args, pc, pidx>>
                   ELSE /\ groups' = r.gs
                        /\ IF r.err
                           THEN /\ ret' = RetParse("error", res.vals, TRUE)
                                /\ UNCHANGED <<args, pc, pidx>>
                           ELSE /\ ret' = RetParse("running", res.vals, FALSE)
                                /\ args' = rest
                                /\ pc' = IF Len(parsers) > 0 THEN "parser" ELSE "check"
                                /\ pidx' = 1
    /\ UNCHANGED <<isRequired, defaultGroupName, parsers, optErr>>
    /\ UNCHANGED cvars

\* One turn of the loop over the parsers (manager.go:937-950); res: what the
\* parser returns.
ParserRunB(res, ord) ==
    /\ pc = "parser"
    /\ LET r == setOptions(groups, res, ord, 1, isRequired)
       IN  IF res.err
           THEN /\ ret' = RetParse("error", res.vals, TRUE)
                /\ pc' = "idle"
                /\ pidx' = 0
                /\ UNCHANGED groups
           ELSE /\ groups' = r.gs
                /\ IF r.err
                   THEN /\ ret' = RetParse("nil", res.vals, TRUE)
                        /\ pc' = "idle"
                        /\ pidx' = 0
                   ELSE /\ pc' = IF pidx < Len(parsers) THEN "parser" ELSE "check"
                        /\ pidx' = pidx + 1
                        /\ ret' = RetParse("running", res.vals, FALSE)
    /\ UNCHANGED <<parsed, isRequired, defaultGroupName, parsers, args, optErr>>
    /\ UNCHANGED cvars

\* The end of Config.Parse (manager.go:952-959).
ParseCheckB(ord) ==
    /\ pc = "check"
    /\ LET r == checkRequiredOptionB(groups, ord, 1, isRequired)
       IN  /\ groups' = r.gs
           /\ ret' = RetParse(IF r.err THEN "error" ELSE "nil", ret.cli,
                               r.err)
    /\ pc' = "idle"
    /\ pidx' = 0
    /\ UNCHANGED <<parsed, isRequired, defaultGroupName, parsers, args,
                   optErr>>
    /\ UNCHANGED cvars

\* Config.Group (manager.go:1099-1109)
GroupB(group) ==
    /\ pc = "idle"
    /\ ret' = Ret("Group",
                  IF ~parsed THEN "panic:ErrNotParsed"
                  ELSE IF getGroupName(group) \in DOMAIN groups THEN "ok"
                  ELSE "panic:nogroup")
    /\ UNCHANGED <<parsed, isRequired, defaultGroupName, parsers, args, groups,
                   pc, pidx, optErr>>
    /\ UNCHANGED cvars

\* What the CLI parser returns: it is given the CLI options only
\* (getAllOpts(true), manager.go:914-916).
CliResults(gs) ==
    { r \in SourceResults(gs) :
        \A sl \in DOMAIN r.vals : r.vals[sl] # NilV => gs[sl[1]].opts[sl[2]].isCli }

\* The inputs of a Parse call: a Config that is parsed already looks at none.
ParseInputsB ==
    IF parsed THEN {[res |-> SourceError, ord |-> <<>>]}
    ELSE { [res |-> r, ord |-> o] :
             r \in CliResults(getGroupByNameB(groups, defaultGroupName)),
             o \in Orders(Slots(groups)) }

NextB ==
    \/ \E g \in GroupArgs, cli \in BOOLEAN, o \in OptCatalogB :
          RegisterOptB(g, cli, o)
    \/ \E p \in ParserNames : AddParserB(p)
    \/ SetNotEmpty
    \/ \E n \in DefaultNameArgs : SetDefaultGroup(n)
    \/ \E in \in ParseInputsB, rest \in RestArgs : ParseB(in.res, rest, in.ord)
    \/ \E r \in SourceResults(groups), o \in Orders(Slots(groups)) :
          ParserRunB(r, o)
    \/ \E o \in Orders(Slots(groups)) : ParseCheckB(o)
    \/ \E g \in GroupArgs : GroupB(g)

SpecB == Init /\ [][NextB]_vars

\* ------------------------------------------------------------------------
\* The OptGroup of group.go:963-2173 (SpecG): one group, with the methods
\* its Config calls on it. conf.isZero is off.
\* ------------------------------------------------------------------------

\* A bound on the length of OptGroup.defers.
MaxDefers == 2

NewOptGroupG ==
    [opts |-> EmptyMap, values |-> EmptyMap, fields |-> EmptyMap,
     defers |-> <<>>, ignore |-> {}]

\* OptGroup.parseOptValue: (error, the value parsed and validated).
parseOptValue(g, name, value) ==
    IF value = NilV THEN Ok(NilV)
    ELSE IF name \notin DOMAIN g.opts THEN Fail
    ELSE LET o == g.opts[name].opt
             r == parseOpt(value, o.type)
         IN  IF r.err THEN Fail
             ELSE IF ChainRejects(o.validators, r.v) THEN Fail
             ELSE Ok(r.v)

\* OptGroup._setOptValue
storeOptValue(g, name, value) ==
    [g EXCEPT !.values = Put(@, name, value),
              !.fields = IF name \in DOMAIN @ THEN Put(@, name, value) ELSE @]

\* OptGroup.setOptValue: (error, the group afterwards).
setOptValueG(g, name, value) ==
    LET r == parseOptValue(g, name, value)
    IN  IF r.err THEN [err |-> TRUE, g |-> g]
        ELSE [err |-> FALSE, g |-> storeOptValue(g, name, r.v)]

\* OptGroup.deferSetOptValue: (error, the group afterwards).
deferSetOptValue(g, name, value) ==
    IF name \in g.ignore THEN setOptValueG(g, name, value)
    ELSE LET r == parseOptValue(g, name, value)
         IN  IF ~r.err /\ ~IsZero(r.v)
             THEN [err |-> FALSE,
                   g |-> [g EXCEPT !.defers = Append(@, <<name, r.v>>)]]
             ELSE [err |-> r.err, g |-> g]

\* The loop of OptGroup._deferSetOptValue, from the last entry of defers
\* down to the first.
RECURSIVE applyDefers(_, _)
applyDefers(g, i) ==
    IF i < 1 THEN g
    ELSE applyDefers(storeOptValue(g, g.defers[i][1], g.defers[i][2]), i - 1)

\* OptGroup._deferSetOptValue
flushDefers(g) == [applyDefers(g, Len(g.defers)) EXCEPT !.defers = <<>>]

\* OptGroup.registerOpt: the duplicate check is commented out.
registerOptG(g, cli, opt) ==
    [g EXCEPT !.opts = Put(@, opt.name, [opt |-> opt, isCli |-> cli])]

\* The body of the loop of OptGroup.checkRequiredOption for one option.
checkRequiredEntryG(g, name, required) ==
    IF name \in DOMAIN g.values THEN [err |-> FALSE, g |-> g]
    ELSE IF g.opts[name].opt.default # NilV
         THEN setOptValueG(g, name, g.opts[name].opt.default)
    ELSE [err |-> required, g |-> g]

RECURSIVE checkRequiredOptionG(_, _, _, _)
checkRequiredOptionG(g, ord, j, required) ==
    IF j > Len(ord) THEN [err |-> FALSE, g |-> g]
    ELSE LET r == checkRequiredEntryG(g, ord[j][2], required)
         IN  IF r.err THEN r
             ELSE checkRequiredOptionG(r.g, ord, j + 1, required)

TheGroup == groups[DefaultGroupName]

FrameG == UNCHANGED <<parsed, isRequired, defaultGroupName, parsers, args, pc,
                      pidx, optErr, watch, lock, gor, committed, watched,
                      walk>>

InitG ==
    /\ parsed = FALSE
    /\ isRequired = FALSE
    /\ defaultGroupName = DefaultGroupName
    /\ parsers = <<>>
    /\ args = <<>>
    /\ groups = [g \in {DefaultGroupName} |-> NewOptGroupG]
    /\ pc = "idle"
    /\ pidx = 0
    /\ optErr = FALSE
    /\ ret = Ret("newOptGroup", "ok")
    /\ InitC

GRegisterOpt(cli, opt) ==
    /\ groups' = [groups EXCEPT ![DefaultGroupName] = registerOptG(@, cli, opt)]
    /\ ret' = Ret("registerOpt", "ok")
    /\ FrameG

GSetOptValue(name, value) ==
    /\ LET r == setOptValueG(TheGroup, name, value)
       IN  /\ groups' = [groups EXCEPT ![DefaultGroupName] = r.g]
           /\ ret' = Ret("setOptValue", IF r.err THEN "error" ELSE "nil")
    /\ FrameG

GDeferSetOptValue(name, value) ==
    /\ Len(TheGroup.defers) < MaxDefers
    /\ LET r == deferSetOptValue(TheGroup, name, value)
       IN  /\ groups' = [groups EXCEPT ![DefaultGroupName] = r.g]
           /\ ret' = [Ret("deferSetOptValue", IF r.err THEN "error" ELSE "nil")
                          EXCEPT !.arg = <<name, value>>]
    /\ FrameG

GFlushDefers ==
    /\ groups' = [groups EXCEPT ![DefaultGroupName] = flushDefers(@)]
    /\ ret' = Ret("_deferSetOptValue", "ok")
    /\ FrameG

GCheckRequiredOption(ord, required) ==
    /\ LET r == checkRequiredOptionG(TheGroup, ord, 1, required)
       IN  /\ groups' = [groups EXCEPT ![DefaultGroupName] = r.g]
           /\ ret' = Ret("checkRequiredOption", IF r.err THEN "error" ELSE "nil")
    /\ FrameG

\* The values given to setOptValue and deferSetOptValue: nil, the raw
\* strings of the sources, a second short string and a string for false.
GroupValues == ParserValues \cup { StrV(<<"2">>), StrV(<<"0">>) }

NextG ==
    \/ \E cli \in BOOLEAN, o \in OptCatalogB : GRegisterOpt(cli, o)
    \/ \E n \in OptNames, v \in GroupValues : GSetOptValue(n, v)
    \/ \E n \in OptNames, v \in GroupValues : GDeferSetOptValue(n, v)
    \/ GFlushDefers
    \/ \E ord \in Orders(Slots(groups)), r \in BOOLEAN : GCheckRequiredOption(ord, r)

SpecG == InitG /\ [][NextG]_vars

\* ------------------------------------------------------------------------
\* The goroutines that use one OptGroup after Parse (SpecL): explicit updates
\* through OptGroup.setOptValue (group.go:1090-1149; group.go:96-141 takes the
\* same steps), reads through OptGroup.Value, and Config.Audit.  Every
\* goroutine makes one call; a step is one lock operation or one access.
\* ------------------------------------------------------------------------

Goroutines == {1, 2}

\* The calls a goroutine makes.
Calls == {"setOptValue", "Value", "Audit"}

\* The steps with conf.watch called inside the locked region (C15).
SetSteps_NotifyLocked == <<"parse", "lock", "store", "notify", "unlock", "done">>

\* The steps of OptGroup.setOptValue in program order: parseOptValue (coerce
\* and validate), then in _setOptValue g.lock.Lock(), the store, the deferred
\* g.lock.Unlock() at the end of the closure, and the call of conf.watch.
SetSteps == <<"parse", "lock", "store", "unlock", "notify", "done">>

\* The step after the step at.
StepAfter(steps, at) == steps[(CHOOSE j \in 1..Len(steps) : steps[j] = at) + 1]

\* The first step of a call.
FirstStep(call) ==
    CASE call = "setOptValue" -> SetSteps[1]
      [] call = "Value" -> "rlock"
      [] OTHER -> "audit"

IdleGoroutine == [call |-> "none", at |-> "idle", name |-> "", value |-> NilV,
                  out |-> "none"]

\* A group as a successful Parse leaves it: two options registered, one of
\* them with a value.
ParsedGroup ==
    LET ip == CHOOSE o \in OptCatalog : o.name = "ip" /\ o.default = NilV
        yes == CHOOSE o \in OptCatalog : o.name = "yes"
        g == registerOptG(registerOptG(NewOptGroupG, TRUE, ip), TRUE, yes)
    IN  setOptValueG(g, "ip", StrV(<<"1">>)).g

FrameL == UNCHANGED <<parsed, isRequired, defaultGroupName, parsers, args, pc,
                      pidx, optErr, ret, walk>>

InitL ==
    /\ parsed = TRUE
    /\ isRequired = FALSE
    /\ defaultGroupName = DefaultGroupName
    /\ parsers = <<>>
    /\ args = <<>>
    /\ groups = [g \in {DefaultGroupName} |-> ParsedGroup]
    /\ pc = "idle"
    /\ pidx = 0
    /\ optErr = FALSE
    /\ ret = RetParse("nil", EmptyMap, FALSE)
    /\ watch \in BOOLEAN
    /\ lock = [w |-> 0, r |-> {}]
    /\ gor = [t \in Goroutines |-> IdleGoroutine]
    /\ committed = <<>>
    /\ watched = <<>>
    /\ walk = [stack |-> <<>>, done |-> <<>>]

\* The goroutine t starts a call.
LCall(t, call, name, value) ==
    /\ gor[t].at = "idle"
    /\ gor' = [gor EXCEPT ![t] = [call |-> call, at |-> FirstStep(call),
                                  name |-> name, value |-> value, out |-> "none"]]
    /\ UNCHANGED <<groups, watch, lock, committed, watched>>
    /\ FrameL

\* OptGroup.parseOptValue, called by setOptValue without the lock.
LParse(t) ==
    /\ gor[t].at = "parse"
    /\ LET r == parseOptValue(TheGroup, gor[t].name, gor[t].value)
       IN  gor' = [gor EXCEPT ![t] =
                      IF r.err THEN [@ EXCEPT !.at = "done", !.out = "error"]
                      ELSE [@ EXCEPT !.at = StepAfter(SetSteps, "parse"),
                                     !.value = r.v]]
    /\ UNCHANGED <<groups, watch, lock, committed, watched>>
    /\ FrameL

\* g.lock.Lock()
LLock(t) ==
    /\ gor[t].at = "lock"
    /\ lock.w = 0 /\ lock.r = {}
    /\ lock' = [lock EXCEPT !.w = t]
    /\ gor' = [gor EXCEPT ![t].at = StepAfter(SetSteps, "lock")]
    /\ UNCHANGED <<groups, watch, committed, watched>>
    /\ FrameL

\* g.values[name] = value and field.Set
LStore(t) ==
    /\ gor[t].at = "store"
    /\ groups' = [groups EXCEPT ![DefaultGroupName] =
                      storeOptValue(@, gor[t].name, gor[t].value)]
    /\ committed' = Append(committed, <<DefaultGroupName, gor[t].name, gor[t].value>>)
    /\ gor' = [gor EXCEPT ![t].at = StepAfter(SetSteps, "store")]
    /\ UNCHANGED <<watch, lock, watched>>
    /\ FrameL

\* g.lock.Unlock()
LUnlock(t) ==
    /\ gor[t].at = "unlock"
    /\ lock' = [lock EXCEPT !.w = 0]
    /\ gor' = [gor EXCEPT ![t].at = StepAfter(SetSteps, "unlock"),
                          ![t].out = IF StepAfter(SetSteps, "unlock") = "done"
                                     THEN "nil" ELSE @]
    /\ UNCHANGED <<groups, watch, committed, watched>>
    /\ FrameL

\* if g.conf.watch != nil { g.conf.watch(g.name, name, value) }: the callback
\* starts; the callback of the model reads the option through Value.
LNotify(t) ==
    /\ gor[t].at = "notify"
    /\ IF watch
       THEN /\ watched' = Append(watched, <<DefaultGroupName, gor[t].name, gor[t].value>>)
            /\ gor' = [gor EXCEPT ![t].at = "rlock"]
       ELSE /\ gor' = [gor EXCEPT ![t].at = StepAfter(SetSteps, "notify"),
                                  ![t].out = IF StepAfter(SetSteps, "notify") = "done"
                                             THEN "nil" ELSE @]
            /\ UNCHANGED watched
    /\ UNCHANGED <<groups, watch, lock, committed>>
    /\ FrameL

\* OptGroup.Value: g.lock.RLock()
LRLock(t) ==
    /\ gor[t].at = "rlock"
    /\ lock.w = 0
    /\ lock' = [lock EXCEPT !.r = @ \cup {t}]
    /\ gor' = [gor EXCEPT ![t].at = "read"]
    /\ UNCHANGED <<groups, watch, committed, watched>>
    /\ FrameL

\* OptGroup.Value: v = g.values[name]
LRead(t) ==
    /\ gor[t].at = "read"
    /\ gor' = [gor EXCEPT ![t].at = "runlock",
                          ![t].out = IF gor[t].name \in DOMAIN TheGroup.values
                                     THEN TheGroup.values[gor[t].name] ELSE NilV]
    /\ UNCHANGED <<groups, watch, lock, committed, watched>>
    /\ FrameL

\* OptGroup.Value: g.lock.RUnlock() and the return; a watch callback returns
\* into _setOptValue.
LRUnlock(t) ==
    /\ gor[t].at = "runlock"
    /\ lock' = [lock EXCEPT !.r = @ \ {t}]
    /\ gor' = [gor EXCEPT ![t].at = IF gor[t].call = "Value" THEN "done"
                                    ELSE StepAfter(SetSteps, "notify"),
                          ![t].out = IF gor[t].call = "Value" THEN @
                                     ELSE IF StepAfter(SetSteps, "notify") = "done"
                                     THEN "nil" ELSE "none"]
    /\ UNCHANGED <<groups, watch, committed, watched>>
    /\ FrameL

\* Config.Audit up to its loop over the groups (manager.go:149-165).
LAudit(t) ==
    /\ gor[t].at = "audit"
    /\ gor' = [gor EXCEPT ![t].at = "auditRead"]
    /\ UNCHANGED <<groups, watch, lock, committed, watched>>
    /\ FrameL

\* Config.Audit: `for name, value := range group.values`, without the lock.
\* While another goroutine is between Lock and Unlock the read races with the
\* write: the Go runtime may stop the program ("concurrent map iteration and
\* map write") or the loop may go through.
LAuditRead(t, outcome) ==
    /\ gor[t].at = "auditRead"
    /\ outcome = "fatal" => lock.w # 0
    /\ gor' = [gor EXCEPT ![t].at = "done", ![t].out = outcome]
    /\ UNCHANGED <<groups, watch, lock, committed, watched>>
    /\ FrameL

NextL ==
    \/ \E t \in Goroutines, c \in Calls, n \in OptNames, v \in GroupValues :
          LCall(t, c, n, v)
    \/ \E t \in Goroutines : LParse(t)
    \/ \E t \in Goroutines : LLock(t)
    \/ \E t \in Goroutines : LStore(t)
    \/ \E t \in Goroutines : LUnlock(t)
    \/ \E t \in Goroutines : LNotify(t)
    \/ \E t \in Goroutines : LRLock(t)
    \/ \E t \in Goroutines : LRead(t)
    \/ \E t \in Goroutines : LRUnlock(t)
    \/ \E t \in Goroutines : LAudit(t)
    \/ \E t \in Goroutines, o \in {"ok", "fatal"} : LAuditRead(t, o)

SpecL == InitL /\ [][NextL]_vars

\* ------------------------------------------------------------------------
\* The walk of OptGroup.registerStructByValue (group.go:1252-1347) over the
\* nested-struct fields of a struct (SpecR). Group names and tags are
\* sequences of characters.
\* ------------------------------------------------------------------------

\* Config.groupSep, the separator of the group path.
groupSep == "."

\* Config.groupName, the name of the default group.
groupName == <<"D", "E", "F">>

\* strings.Contains for a substring of one character
Contains(str, c) == \E j \in 1..Len(str) : str[j] = c

\* strings.TrimLeft, TrimRight and Trim for a cutset of one character
RECURSIVE TrimLeft(_, _)
TrimLeft(str, c) ==
    IF Len(str) > 0 /\ str[1] = c THEN TrimLeft(Tail(str), c) ELSE str

RECURSIVE TrimRight(_, _)
TrimRight(str, c) ==
    IF Len(str) > 0 /\ str[Len(str)] = c
    THEN TrimRight(SubSeq(str, 1, Len(str) - 1), c) ELSE str

Trim(str, c) == TrimRight(TrimLeft(str, c), c)

\* strings.TrimSpace
TrimSpace(str) == Trim(str, " ")

\* Config.mergeGroupName: the path of the group name below the group parent;
\* a group below the default group carries no prefix.
mergeGroupName(parent, name) ==
    IF parent = <<>> \/ parent = groupName THEN name
    ELSE parent \o <<groupSep>> \o name

\* The group that the nested struct of a field is registered in: parent is
\* the argument of registerStructByValue, name the option name of the field,
\* resetgroup and tag the result of field.Tag.Lookup("group")
\* (group.go:1289-1313).
parentGroup(parent, name, resetgroup, tag) ==
    LET taggroup == TrimSpace(tag)
    IN  IF ~resetgroup THEN mergeGroupName(parent, name)
        ELSE IF Contains(taggroup, groupSep) THEN Trim(taggroup, groupSep)
        ELSE IF taggroup = <<>> THEN groupName
        ELSE mergeGroupName(parent, taggroup)

\* The values of the tag `group` on the fields of the model.
GroupTags ==
    { <<>>, <<"a">>, <<".", "a">>, <<"a", ".", "b">>, <<".", "a", ".", "b">>,
      <<" ", "a">> }

\* A nested-struct field: its option name, whether it carries the tag `group`,
\* the tag, and the fields of its struct type.
StructField(name, has, tag, sub) ==
    [name |-> name, has |-> has, tag |-> tag, sub |-> sub]

FieldsOver(name, subs) ==
    { StructField(name, FALSE, <<>>, sub) : sub \in subs } \cup
    { StructField(name, TRUE, tag, sub) : tag \in GroupTags, sub \in subs }

\* The struct types of the model: one nested-struct field that holds a struct
\* with one nested-struct field that holds a struct without any.
WalkStructs == { <<f>> : f \in FieldsOver(<<"x">>, { <<g>> : g \in FieldsOver(<<"y">>, {<<>>}) }) }

\* The names of the groups RegisterStruct is called on.
WalkGroups == { groupName, <<"p">> }

FrameR == UNCHANGED <<parsed, isRequired, defaultGroupName, parsers, args,
                      groups, pc, pidx, optErr, watch, lock, gor, committed,
                      watched>>

\* OptGroup.registerStruct (group.go:1236-1250) on the group gname
RWalkStart(gname, st) ==
    /\ walk.stack = <<>>
    /\ walk.done = <<>>
    /\ walk' = [walk EXCEPT !.stack = <<[parent |-> gname, fields |-> st]>>]
    /\ ret' = Ret("RegisterStruct", "running")
    /\ FrameR

\* One turn of the loop of registerStructByValue on a nested-struct field:
\* the recursive call on the group of the field.
RWalkField ==
    /\ walk.stack # <<>>
    /\ Head(walk.stack).fields # <<>>
    /\ LET fr == Head(walk.stack)
           f == Head(fr.fields)
           pg == parentGroup(fr.parent, f.name, f.has, f.tag)
       IN  walk' = [stack |-> <<[parent |-> pg, fields |-> f.sub],
                                [parent |-> fr.parent, fields |-> Tail(fr.fields)]>>
                              \o Tail(walk.stack),
                    done |-> Append(walk.done,
                                    [parent |-> fr.parent, name |-> f.name,
                                     has |-> f.has, tag |-> f.tag,
                                     group |-> pg])]
    /\ UNCHANGED ret
    /\ FrameR

\* registerStructByValue returns at the end of its loop.
RWalkReturn ==
    /\ walk.stack # <<>>
    /\ Head(walk.stack).fields = <<>>
    /\ walk' = [walk EXCEPT !.stack = Tail(@)]
    /\ ret' = IF Len(walk.stack) = 1 THEN Ret("RegisterStruct", "ok") ELSE ret
    /\ FrameR

NextR ==
    \/ \E g \in WalkGroups, st \in WalkStructs : RWalkStart(g, st)
    \/ RWalkField
    \/ RWalkReturn

SpecR == Init /\ [][NextR]_vars

\* ------------------------------------------------------------------------
\* OptGroup.NewGroup (group.go:1082-1085) (SpecN): the call stack of a
\* goroutine that calls it.
\* ------------------------------------------------------------------------

\* The number of frames of NewGroup the stack of a goroutine holds before the
\* Go runtime stops the program with "stack overflow".
MaxStack == 8

\* The names given to NewGroup.
NewGroupArgs ==
    { <<"a">>, <<"b">>, <<"a", ".", "b">>, <<"p">>, <<"D", "E", "F">>,
      <<"a", "b">>, <<"b", ".", "a">> }

\* A caller calls g.NewGroup(name) on the group named gname.
NNewGroup(gname, name) ==
    /\ walk.stack = <<>>
    /\ ret.call # "NewGroup"
    /\ walk' = [walk EXCEPT !.stack = <<[parent |-> gname, name |-> name]>>]
    /\ ret' = Ret("NewGroup", "running")
    /\ FrameR

\* The body of NewGroup: return g.NewGroup(g.conf.mergeGroupName(g.name,
\* name)), the call of the method on the same receiver.
NNewGroupBody ==
    /\ walk.stack # <<>>
    /\ Len(walk.stack) < MaxStack
    /\ LET fr == Head(walk.stack)
       IN  walk' = [walk EXCEPT !.stack =
                       <<[parent |-> fr.parent,
                          name |-> mergeGroupName(fr.parent, fr.name)]>> \o @]
    /\ UNCHANGED ret
    /\ FrameR

\* The stack of the goroutine is full: the runtime ends the program.
NStackOverflow ==
    /\ Len(walk.stack) = MaxStack
    /\ walk' = [walk EXCEPT !.stack = <<>>]
    /\ ret' = Ret("NewGroup", "fatal:stack overflow")
    /\ FrameR

NextN ==
    \/ \E g \in WalkGroups, n \in NewGroupArgs : NNewGroup(g, n)
    \/ NNewGroupBody
    \/ NStackOverflow

SpecN == Init /\ [][NextN]_vars

\* ------------------------------------------------------------------------
\* baseOpt.Parse in its three revisions (SpecP): part_008:387-447 (through
\* parseOpt), part_010:157-202 and opt.go:120-133.
\* ------------------------------------------------------------------------

\* The types of the options parsed: noneType, which no revision supports,
\* and the scalar types of the model.
ParseTypes ==
    { "none", "bool", "string", "int", "int8", "int16", "int64", "uint",
      "uint8", "uint16", "uint64" }

UnsignedTypes == { "uint", "uint8", "uint16", "uint64" }

\* The numbers given to Parse, as strings and as integers: around the bounds
\* of the types of 8 and 16 bits.
ParseInts ==
    { -32769, -32768, -129, -128, -1, 0, 1, 127, 128, 255, 256, 300, 32767,
      32768, 65535, 65536, 70000 }

ParseStrings == { FormatInt(n) : n \in ParseInts } \cup { <<"a">>, <<>>, TrueStr }

\* The values given to the Parse of part_008, which takes an interface{}.
ParseData ==
    { NilV, BoolV(TRUE) } \cup { StrV(x) : x \in ParseStrings }
        \cup { Int64V(n) : n \in ParseInts }

\* The (type, data) pairs given to the Parse of part_008 (see ToUint64).
ParseInputs ==
    { in \in ParseTypes \X ParseData :
        ~(in[1] \in UnsignedTypes /\ in[2].k = "int64" /\ in[2].i < 0) }

\* The outcome of a Parse: it panicked, or it returned (v, err).
Panicked == [panic |-> TRUE, err |-> FALSE, v |-> NilV]

Returned(r) == [panic |-> FALSE, err |-> r.err, v |-> r.v]

\* baseOpt.Parse of part_008:387-389
baseOptParse008(data, type) == Returned(parseOpt(data, type))

\* baseOpt.Parse of part_010:157-202: the scalar types as parseOpt converts
\* them, and a panic in the default case of the switch.
baseOptParse010(data, type) ==
    IF type \in ParseTypes \ {"none"} THEN Returned(parseOpt(data, type))
    ELSE Panicked

\* baseOpt.Parse of opt.go:120-133: stringType and intType, and a panic in
\* the default case of the switch.
baseOptParse(data, type) ==
    CASE type = "string" -> Returned(ToString(data))
      [] type = "int" ->
            LET r == ToInt64(data)
            IN  IF r.err THEN Returned(Fail) ELSE Returned(Ok(IntV(r.v.i)))
      [] OTHER -> Panicked

RetOf(call, type, data, r) ==
    [Ret(call, IF r.panic THEN "panic" ELSE IF r.err THEN "error" ELSE "ok")
        EXCEPT !.arg = <<type, data>>, !.val = r.v]

FrameP == UNCHANGED <<parsed, isRequired, defaultGroupName, parsers, args,
                      groups, pc, pidx, optErr>>

PParse008(type, data) ==
    /\ ret' = RetOf("baseOpt.Parse:part_008", type, data, baseOptParse008(data, type))
    /\ FrameP
    /\ UNCHANGED cvars

PParse010(type, data) ==
    /\ ret' = RetOf("baseOpt.Parse:part_010", type, data, baseOptParse010(data, type))
    /\ FrameP
    /\ UNCHANGED cvars

PParse(type, data) ==
    /\ ret' = RetOf("baseOpt.Parse:opt.go", type, data, baseOptParse(data, type))
    /\ FrameP
    /\ UNCHANGED cvars

NextP ==
    \/ \E in \in ParseInputs : PParse008(in[1], in[2])
    \/ \E t \in ParseTypes, x \in ParseStrings : PParse010(t, StrV(x))
    \/ \E t \in ParseTypes, x \in ParseStrings : PParse(t, StrV(x))

SpecP == Init /\ [][NextP]_vars

\* ------------------------------------------------------------------------
\* propertyParser.Parse (part_013:484-545) (SpecF). Lines, keys and values
\* are sequences of characters.
\* ------------------------------------------------------------------------

\* The largest number of lines of a file.
MaxLines == 3

\* The lines of the files: empty, comments, key=value with and without a
\* trailing backslash, with blanks, with a group, without separator.
FileLines ==
    { <<>>,
      <<"#", "v">>,
      <<"/", "/">>,
      <<"k">>,
      <<"v">>,
      <<"\\">>,
      <<"k", "=">>,
      <<"k", "=", "v">>,
      <<"k", "=", "\\">>,
      <<"k", "=", "v", "\\">>,
      <<" ", "k", " ", "=", " ", "v", " ">>,
      <<"g", ".", "k", "=", "v">> }

\* strings.Split(string(data), "\n") of the files: at least one line.
RECURSIVE FilesOfLen(_)
FilesOfLen(n) ==
    IF n = 0 THEN { <<>> }
    ELSE { Append(f, l) : f \in FilesOfLen(n - 1), l \in FileLines }

Files == UNION { FilesOfLen(n) : n \in 1..MaxLines }

\* The position of the first (last) c in str, 0 when there is none.
IndexOf(str, c) ==
    IF Contains(str, c)
    THEN CHOOSE j \in 1..Len(str) : str[j] = c /\ \A k \in 1..(j - 1) : str[k] # c
    ELSE 0

LastIndexOf(str, c) ==
    IF Contains(str, c)
    THEN CHOOSE j \in 1..Len(str) : str[j] = c /\ \A k \in (j + 1)..Len(str) : str[k] # c
    ELSE 0

\* The line is a comment: it starts with "#", ";" or "//".
IsComment(line) ==
    \/ line[1] = "#"
    \/ line[1] = ";"
    \/ Len(line) > 1 /\ line[1] = "/" /\ line[2] = "/"

\* The loop `for index < maxIndex && value[len(value)-1] == '\\'` with the
\* Printf of lines[index] at its end; index counts the lines read (the next
\* line is lines[index + 1] here). An index out of range panics.
RECURSIVE continueValue(_, _, _)
continueValue(lines, index, value) ==
    IF index >= Len(lines) THEN [panic |-> FALSE, index |-> index, value |-> value]
    ELSE IF Len(value) = 0 THEN [panic |-> TRUE, index |-> index, value |-> value]
    ELSE IF value[Len(value)] # "\\"
    THEN [panic |-> FALSE, index |-> index, value |-> value]
    ELSE LET v2 == TrimRight(value, "\\") \o TrimSpace(lines[index + 1])
         IN  IF index + 1 >= Len(lines)
             THEN [panic |-> TRUE, index |-> index + 1, value |-> v2]
             ELSE continueValue(lines, index + 1, v2)

\* The arguments of c.SetOptValue for a key: the group before the last
\* group separator ("" without one), the option after it.
keyGroup(key) ==
    IF LastIndexOf(key, groupSep) = 0 THEN <<>>
    ELSE SubSeq(key, 1, LastIndexOf(key, groupSep) - 1)

keyOption(key) == SubSeq(key, LastIndexOf(key, groupSep) + 1, Len(key))

\* The loop over the lines from the line after index on; rej: c.SetOptValue
\* returns an error; sets: the calls of c.SetOptValue made so far.
RECURSIVE parseLines(_, _, _, _)
parseLines(lines, index, rej, sets) ==
    IF index >= Len(lines) THEN [out |-> "nil", sets |-> sets]
    ELSE LET line == TrimSpace(lines[index + 1])
         IN  IF Len(line) = 0 THEN parseLines(lines, index + 1, rej, sets)
             ELSE IF IsComment(line) THEN parseLines(lines, index + 1, rej, sets)
             ELSE IF IndexOf(line, "=") = 0 THEN [out |-> "error", sets |-> sets]
             ELSE LET key == TrimSpace(SubSeq(line, 1, IndexOf(line, "=") - 1))
                      value == TrimSpace(SubSeq(line, IndexOf(line, "=") + 1, Len(line)))
                      c == IF Len(value) = 0
                           THEN [panic |-> FALSE, index |-> index + 1, value |-> value]
                           ELSE continueValue(lines, index + 1, value)
                      sets1 == Append(sets, <<keyGroup(key), keyOption(key), c.value>>)
                  IN  IF c.panic THEN [out |-> "panic", sets |-> sets]
                      ELSE IF rej THEN [out |-> "error", sets |-> sets1]
                      ELSE parseLines(lines, c.index, rej, sets1)

\* What propertyParser.Parse finds: no file name in the option, a file that
\* cannot be read, or the lines of the file.
NoFileName == [kind |-> "noname", lines |-> <<>>]

Unreadable == [kind |-> "unreadable", lines |-> <<>>]

FileInputs == { NoFileName, Unreadable } \cup { [kind |-> "file", lines |-> f] : f \in Files }

\* propertyParser.Parse
propertyParserParse(in, rej) ==
    IF in.kind = "noname" THEN [out |-> "nil", sets |-> <<>>]
    ELSE IF in.kind = "unreadable" THEN [out |-> "error", sets |-> <<>>]
    ELSE parseLines(in.lines, 0, rej, <<>>)

\* A Config calls Parse of its property parser, once.
FParse(in, rej) ==
    /\ ret.call # "propertyParser.Parse"
    /\ LET r == propertyParserParse(in, rej)
       IN  ret' = [Ret("propertyParser.Parse", r.out)
                      EXCEPT !.arg = <<in.kind, in.lines, rej>>, !.named = r.sets]
    /\ FrameP
    /\ UNCHANGED cvars

NextF == \E in \in FileInputs, rej \in BOOLEAN : FParse(in, rej)

SpecF == Init /\ [][NextF]_vars

\* ------------------------------------------------------------------------
\* Properties of the Config of manager.go:25-735 (Spec)
\* ------------------------------------------------------------------------

HasValue(gs, sl) == sl[1] \in DOMAIN gs /\ sl[2] \in DOMAIN gs[sl[1]].values

Val(gs, sl) == gs[sl[1]].values[sl[2]]

\* The flag of sl was on the command line of the Parse call r.
OnCommandLine(r, sl) == sl \in DOMAIN r.cli /\ r.cli[sl] # NilV

\* The value the command line gives for sl passes coercion and validation.
CliValueAccepted(gs, r, sl) ==
    /\ ~parseOpt(r.cli[sl], OptOf(gs, sl).type).err
    /\ ~ChainRejects(OptOf(gs, sl).validators,
                     parseOpt(r.cli[sl], OptOf(gs, sl).type).v)

ParseReturned == ret.call = "Parse" /\ pc = "idle" /\ ret.out \in {"nil", "error"}

\* C1: when the command line (the source of highest precedence) and an added
\* parser both supply a value for an option, the value committed after Parse
\* is the one of the command line.
C1_CommandLineValueWins ==
    (ParseReturned /\ ret.out = "nil") =>
        \A sl \in CliSlots(groups) :
            (OnCommandLine(ret, sl) /\ CliValueAccepted(groups, ret, sl)) =>
                /\ HasValue(groups, sl)
                /\ Val(groups, sl) = parseOpt(ret.cli[sl], OptOf(groups, sl).type).v

\* C3: when the validator chain of an option rejects the value given on the
\* command line, Parse returns an error and the option has no committed value.
C3_RejectedCliValueFailsParse ==
    ParseReturned =>
        \A sl \in CliSlots(groups) :
            ( /\ OnCommandLine(ret, sl)
              /\ ~parseOpt(ret.cli[sl], OptOf(groups, sl).type).err
              /\ ChainRejects(OptOf(groups, sl).validators,
                              parseOpt(ret.cli[sl], OptOf(groups, sl).type).v) ) =>
                ret.out = "error" /\ ~HasValue(groups, sl)

\* C4: the CLI parser commits nothing for a flag that is not on the command
\* line: at the end of the CLI stage such an option has no committed value,
\* and the required-option check then gives it its default, or leaves it
\* without value when it has none.
C4_OnlySuppliedFlagsCommitted ==
    [][ /\ (~parsed /\ parsed') =>
              \A sl \in CliSlots(groups') :
                  ~OnCommandLine(ret', sl) => ~HasValue(groups', sl)
        /\ (pc = "check" /\ ret'.out = "nil") =>
              \A sl \in CliSlots(groups) :
                  (~OnCommandLine(ret', sl) /\ ~HasValue(groups, sl)) =>
                      IF OptOf(groups, sl).default = NilV
                      THEN ~HasValue(groups', sl)
                      ELSE /\ HasValue(groups', sl)
                           /\ Val(groups', sl) = OptOf(groups, sl).default ]_vars

\* A Parse that succeeded with a boolean flag left off the command line while
\* another flag was on it.
C4_Witness ==
    /\ ParseReturned /\ ret.out = "nil"
    /\ \E sl \in CliSlots(groups) :
          /\ OptOf(groups, sl).type = "bool"
          /\ ~OnCommandLine(ret, sl)
          /\ ~HasValue(groups, sl)
    /\ \E sl \in CliSlots(groups) : OnCommandLine(ret, sl) /\ HasValue(groups, sl)

WriteCalls ==
    {"RegisterOpt", "RegisterCliOpt", "RegisterStruct", "AddParser",
     "SetRequired", "SetDefaultGroupName"}

ReadCalls == {"Group", "Groups", "Args", "TypeE", "TypeD", "Type"}

\* C7: once Parse has been invoked, RegisterOpt, RegisterCliOpt,
\* RegisterStruct, AddParser, SetRequired and SetDefaultGroupName panic with
\* ErrParsed and change neither the groups, the parsers nor the settings.
C7_WritesPanicAfterParse ==
    [][ (parsed /\ ret'.call \in WriteCalls) =>
            /\ ret'.out = "panic:ErrParsed"
            /\ UNCHANGED <<groups, parsers, isRequired, defaultGroupName>> ]_vars

\* Each of the six calls was made after Parse; shown for the last of them on
\* a Config with a registered option and a parser.
C7_Witness ==
    /\ parsed
    /\ ret = Ret("SetDefaultGroupName", "panic:ErrParsed")
    /\ Slots(groups) # {}
    /\ parsers # <<>>
    /\ defaultGroupName = DefaultGroupName

\* C8: before Parse has been invoked, Group, Groups, Args and the typed
\* accessors panic with ErrNotParsed.
C8_ReadsPanicBeforeParse ==
    (~parsed /\ ret.call \in ReadCalls) => ret.out = "panic:ErrNotParsed"

\* A typed accessor called before Parse on a Config with a registered option.
C8_Witness ==
    /\ ~parsed
    /\ ret = Ret("TypeE", "panic:ErrNotParsed")
    /\ Slots(groups) # {}

\* C10: when Parse succeeds, every option that has a default and no value at
\* the required-option check gets the default coerced to its type, and the
\* validator chain of the option accepts the stored value.
C10_DefaultCoercedAndValidated ==
    [][ (pc = "check" /\ ret'.out = "nil") =>
            \A sl \in Slots(groups) :
                (~HasValue(groups, sl) /\ OptOf(groups, sl).default # NilV) =>
                    /\ HasValue(groups', sl)
                    /\ ~parseOpt(OptOf(groups, sl).default, OptOf(groups, sl).type).err
                    /\ Val(groups', sl) =
                          parseOpt(OptOf(groups, sl).default, OptOf(groups, sl).type).v
                    /\ ~ChainRejects(OptOf(groups, sl).validators, Val(groups', sl)) ]_vars

\* A successful Parse after which an option that no source gave a value for
\* holds its default.
C10_Witness ==
    /\ ParseReturned /\ ret.out = "nil"
    /\ parsers = <<>>
    /\ \E sl \in CliSlots(groups) :
          /\ ~OnCommandLine(ret, sl)
          /\ OptOf(groups, sl).default # NilV
          /\ HasValue(groups, sl)
          /\ Val(groups, sl) = OptOf(groups, sl).default

\* The options that have neither a committed value nor a default.
Missing(gs) ==
    { sl \in Slots(gs) : ~HasValue(gs, sl) /\ OptOf(gs, sl).default = NilV }

\* The options without value whose default the option itself rejects.
BadDefault(gs) ==
    { sl \in Slots(gs) :
        /\ ~HasValue(gs, sl)
        /\ OptOf(gs, sl).default # NilV
        /\ setOptValue(gs[sl[1]], sl[2], OptOf(gs, sl).default).err }

BoundSlots(gs) == { sl \in Slots(gs) : sl[2] \in DOMAIN gs[sl[1]].fields }

C18_ParsersRunInOrderAdded ==
    [][ /\ parsers' # parsers =>
              /\ pc = "idle" /\ ~parsed
              /\ \E n \in ParserNames : parsers' = Append(parsers, n)
        /\ (pc = "idle" /\ pc' = "parser") =>
              /\ ret'.call = "Parse" /\ pidx' = 1
              /\ \A sl \in CliSlots(groups') :
                    (OnCommandLine(ret', sl) /\ CliValueAccepted(groups', ret', sl)) =>
                        /\ HasValue(groups', sl)
                        /\ Val(groups', sl) = parseOpt(ret'.cli[sl], OptOf(groups', sl).type).v
        /\ (pc = "parser" /\ pc' = "parser") =>
              /\ pidx' \in {pidx, pidx + 1}
              /\ pidx' <= Len(parsers)
              /\ pidx' = pidx + 1 => groups' = groups
        /\ (pc = "parser" /\ pc' = "check") =>
              pidx = Len(parsers) /\ groups' = groups
        /\ pc' = "check" => pc \in {"idle", "parser"}
        /\ (pc = "idle" /\ pc' = "check") => Len(parsers) = 0
      ]_vars

\* The second of two added parsers runs, the one added first having committed
\* a value the command line did not supply.
C18_Witness ==
    /\ pc = "parser" /\ pidx = 2
    /\ parsers = <<"env", "ini">>
    /\ \E sl \in Slots(groups) :
          /\ HasValue(groups, sl)
          /\ ~OnCommandLine(ret, sl)
          /\ Val(groups, sl) # OptOf(groups, sl).default

\* C17: when a parser has committed a value for an option name that is not
\* registered in the addressed group (or for a group that was never
\* registered), Parse returns a non-nil error.
C17_UnknownOptionFailsParse ==
    (ParseReturned /\ ret.unknown) => ret.out = "error"

\* C19: a call of SetDefaultGroupName made when an option is registered
\* already is a fatal usage error and leaves the default group name as it was.
C19_DefaultGroupNameFixedAfterRegistration ==
    [][ (ret'.call = "SetDefaultGroupName" /\ Slots(groups) # {}) =>
            /\ ret'.out # "ok"
            /\ defaultGroupName' = defaultGroupName ]_vars

\* C25: when a commit made through the set-option callback during Parse has
\* failed, Parse returns a non-nil error, whatever the commits after it did.
C25_FailedCommitFailsParse ==
    (ParseReturned /\ ret.rejected) => ret.out = "error"

\* C29: a commit of a parser that is rejected (unknown group or option,
\* coercion or validation failure) leaves the set of groups as it was.
C29_RejectedCommitCreatesNoGroup ==
    [][ (pc = "parser" /\ pc' = "parser" /\ pidx' = pidx /\ optErr') =>
            DOMAIN groups' = DOMAIN groups ]_vars

\* C28: the Config becomes parsed in the first step of the first Parse call
\* and stays parsed, whether Parse returns nil or an error: afterwards no
\* read accessor fails with ErrNotParsed and a further Parse call panics with
\* ErrParsed and commits nothing.
C28_ParsedForever ==
    [][ /\ parsed => parsed'
        /\ (pc = "idle" /\ ret'.call = "Parse") => parsed'
        /\ (ParseReturned /\ ret'.call \in ReadCalls) =>
               ret'.out # "panic:ErrNotParsed"
        /\ (ParseReturned /\ ret'.call = "Parse" /\ ret' # ret) =>
               /\ ret'.out = "panic:ErrParsed"
               /\ UNCHANGED <<groups, parsed>> ]_vars

\* A Parse call has failed on a Config with a registered option.
C28_Witness ==
    /\ ParseReturned
    /\ ret.out = "error"
    /\ parsed
    /\ Slots(groups) # {}

\* ------------------------------------------------------------------------
\* Properties of the Config of manager.go:736-1425 (SpecB)
\* ------------------------------------------------------------------------

\* C2: when a parser returns an error or a value it commits is rejected,
\* Parse returns a non-nil error.
C2_FailedSourceFailsParse ==
    (ret.call = "Parse" /\ pc = "idle" /\ ret.rejected) => ret.out = "error"

\* C5: a source that gives no value for an option leaves the committed value
\* of the option as the earlier sources left it.
C5_AbsentInputKeepsValue ==
    [][ (pc = "parser" /\ ret'.call = "Parse") =>
            \A sl \in Slots(groups) :
                (~OnCommandLine(ret', sl) /\ HasValue(groups, sl)) =>
                    /\ HasValue(groups', sl)
                    /\ Val(groups', sl) = Val(groups, sl) ]_vars

\* C6: a second call of Parse panics with ErrParsed, and commits nothing.
C6_SecondParsePanics ==
    [][ (parsed /\ pc = "idle" /\ ret'.call = "Parse") =>
            /\ ret'.out = "panic:ErrParsed"
            /\ UNCHANGED groups ]_vars

\* ------------------------------------------------------------------------
\* Properties of the OptGroup of group.go:963-2173 (SpecG)
\* ------------------------------------------------------------------------

\* C9: registering an option under a name that the group holds already
\* panics and leaves the descriptor map as it was, the first descriptor with
\* its CLI flag included.
C9_DuplicateRegistrationPanics ==
    [][ (ret'.call = "registerOpt" /\ DOMAIN TheGroup'.opts = DOMAIN TheGroup.opts) =>
            /\ ret'.out = "panic:registered"
            /\ TheGroup'.opts = TheGroup.opts ]_vars

\* C24: when several values are deferred for one option, after the flush the
\* value of the option (and its bound struct field) is the one that was
\* deferred last.
C24_LastDeferredWins ==
    [][ (TheGroup.defers # <<>> /\ groups'[DefaultGroupName].defers = <<>>) =>
            LET d == TheGroup.defers
                g1 == groups'[DefaultGroupName]
            IN  \A i \in 1..Len(d) :
                    (\A k \in (i + 1)..Len(d) : d[k][1] # d[i][1]) =>
                        /\ d[i][1] \in DOMAIN g1.values
                        /\ g1.values[d[i][1]] = d[i][2]
                        /\ d[i][1] \in DOMAIN g1.fields =>
                               g1.fields[d[i][1]] = d[i][2] ]_vars

\* C26: every value given to deferSetOptValue that passes coercion and
\* validation is buffered for the next flush, a value that is the zero of its
\* type (false, 0, the empty string) included, and the flush leaves every
\* buffered option with a value.
C26_ExplicitZeroIsDeferred ==
    [][ /\ (ret'.call = "deferSetOptValue" /\ ret'.arg # <<>>) =>
               LET r == parseOptValue(TheGroup, ret'.arg[1], ret'.arg[2])
               IN  ( /\ ret'.arg[2] # NilV
                     /\ ~r.err
                     /\ ret'.arg[1] \notin TheGroup.ignore ) =>
                       groups'[DefaultGroupName].defers =
                           Append(TheGroup.defers, <<ret'.arg[1], r.v>>)
        /\ (TheGroup.defers # <<>> /\ groups'[DefaultGroupName].defers = <<>>) =>
               \A i \in 1..Len(TheGroup.defers) :
                   TheGroup.defers[i][1] \in DOMAIN groups'[DefaultGroupName].values
      ]_vars

\* ------------------------------------------------------------------------
\* Properties of the goroutines that use a group after Parse (SpecL)
\* ------------------------------------------------------------------------

IsPrefix(a, b) == Len(a) <= Len(b) /\ \A j \in 1..Len(a) : a[j] = b[j]

\* No goroutine is inside a call.
Quiescent == \A t \in DOMAIN gor : gor[t].at \in {"idle", "done"}

\* C12: with a watch callback set, every store of a value is followed by one
\* call of the callback with the group, the option and the stored value, and
\* the calls are made in the order of the stores: the calls made so far are
\* the first stores in their order, and all of them once every call has
\* returned; a rejected value is neither stored nor reported.
C12_WatchFollowsCommits ==
    watch => /\ IsPrefix(watched, committed)
             /\ Quiescent => watched = committed

\* The goroutine t has made the first step of an update (the coercion and
\* validation of parseOptValue) and not yet the last (the return of the
\* watch callback).
InUpdate(t) ==
    /\ gor[t].call = "setOptValue"
    /\ gor[t].at \notin {"idle", "parse", "done"}

\* C13: the coerce-validate-store-notify sequences of two concurrent updates
\* of the same option do not interleave: while one goroutine is inside the
\* sequence, which it runs under the group's exclusive lock, no other
\* goroutine is inside the sequence for that option.
C13_UpdatesDoNotInterleave ==
    \A t, u \in DOMAIN gor :
        (t # u /\ InUpdate(t) /\ InUpdate(u)) => gor[t].name # gor[u].name

\* C14: after Parse every read of the value map of a group is made with the
\* read lock of the group held and every write with its write lock held, so
\* that no read meets a write in progress and a goroutine that reads never
\* ends in a fault of the runtime.
C14_ValueMapAccessUnderLock ==
    \A t \in DOMAIN gor :
        /\ gor[t].at \in {"read", "auditRead"} => t \in lock.r
        /\ gor[t].at = "store" => lock.w = t
        /\ gor[t].out # "fatal"

\* The steps of an update from the call of the watch callback to its return.
InCallback(t) ==
    /\ gor[t].call = "setOptValue"
    /\ gor[t].at \in {"notify", "rlock", "read", "runlock"}

\* C15: the watch callback is not called with the lock of the group held by
\* the calling goroutine, so a callback that reads an option of the group
\* through Value is never stopped by its own goroutine: when it has to wait
\* for the read lock, the write lock is held by another goroutine, which is
\* inside the locked region and leaves it without waiting for anything.
C15_WatchCalledWithoutLock ==
    \A t \in DOMAIN gor :
        InCallback(t) =>
            /\ lock.w # t
            /\ (gor[t].at = "rlock" /\ lock.w # 0) =>
                  gor[lock.w].at \in {"store", "unlock"}

\* A watch callback reads, under the read lock, the option its update has
\* stored, while the other goroutine waits for the write lock.
C15_Witness ==
    /\ watch
    /\ \E t, u \in DOMAIN gor :
          /\ InCallback(t) /\ gor[t].at = "read"
          /\ t \in lock.r
          /\ TheGroup.values[gor[t].name] = gor[t].value
          /\ gor[u].call = "setOptValue" /\ gor[u].at = "lock"

\* The last call of the watch callback made for the option n.
LastWatched(n) ==
    LET W == { j \in 1..Len(watched) : watched[j][2] = n }
    IN  watched[CHOOSE j \in W : \A k \in W : k <= j]

\* C27: when the updates of an option by two goroutines have returned, the
\* value given to the last watch callback for the option is the value the
\* group holds for it.
C27_LastCallbackHasStoredValue ==
    (watch /\ Quiescent) =>
        \A n \in OptNames :
            (\E j \in 1..Len(watched) : watched[j][2] = n) =>
                LastWatched(n)[3] = TheGroup.values[n]

\* ------------------------------------------------------------------------
\* Properties of the struct walk of group.go:1252-1347 (SpecR)
\* ------------------------------------------------------------------------

\* The string str begins with the character c.
HasPrefix(str, c) == Len(str) > 0 /\ str[1] = c

\* C20: the tag `group` of a nested-struct field names a path from the root
\* only when it begins with the group separator; any other non-empty tag is
\* resolved below the current group (the current path, the separator, the
\* tag).
C20_GroupTagRelativeUnlessLeadingSeparator ==
    \A j \in 1..Len(walk.done) :
        LET e == walk.done[j]
            tag == TrimSpace(e.tag)
        IN  (e.has /\ tag # <<>> /\ ~HasPrefix(tag, groupSep)) =>
                e.group = mergeGroupName(e.parent, tag)

\* ------------------------------------------------------------------------
\* Properties of OptGroup.NewGroup (SpecN)
\* ------------------------------------------------------------------------

\* C23: a call of NewGroup(name) that is over has returned the group whose
\* path is the receiver's path joined with name.
C23_NewGroupReturns ==
    (ret.call = "NewGroup" /\ walk.stack = <<>>) => ret.out = "ok"

\* ------------------------------------------------------------------------
\* Properties of baseOpt.Parse (SpecP)
\* ------------------------------------------------------------------------

ParseCalls ==
    { "baseOpt.Parse:part_008", "baseOpt.Parse:part_010", "baseOpt.Parse:opt.go" }

\* C21: for every option type, the unsupported one included, and every
\* input, Parse returns a value or an error and does not panic.
C21_ParseNeverPanics ==
    ret.call \in ParseCalls => ret.out \in {"ok", "error"}

\* The 64-bit value of the input of the last Parse call.
Input64 ==
    IF ret.arg[1] \in UnsignedTypes THEN ToUint64(ret.arg[2])
    ELSE ToInt64(ret.arg[2])

NarrowTypes == { "int8", "int16", "uint8", "uint16" }

WidthOf(type) == IF type \in {"int8", "uint8"} THEN 8 ELSE 16

MinOf(type) == IF type \in UnsignedTypes THEN 0 ELSE 0 - (TwoTo(WidthOf(type)) \div 2)

MaxOf(type) == MinOf(type) + TwoTo(WidthOf(type)) - 1

\* The last call was parseOpt for a narrow type on an input whose 64-bit
\* value is outside the range of the type.
OutOfRangeInput ==
    /\ ret.call = "baseOpt.Parse:part_008"
    /\ ret.arg[1] \in NarrowTypes
    /\ ~Input64.err
    /\ (Input64.v.i < MinOf(ret.arg[1]) \/ Input64.v.i > MaxOf(ret.arg[1]))

\* C22: an input whose 64-bit value is outside the range of the narrow
\* integer type of the option is coerced without error to the value of that
\* type that is congruent to it modulo 2^width.
C22_NarrowingTruncates ==
    OutOfRangeInput =>
        /\ ret.out = "ok"
        /\ ret.val.k = ret.arg[1]
        /\ ret.val.i \in MinOf(ret.arg[1])..MaxOf(ret.arg[1])
        /\ (ret.val.i - Input64.v.i) % TwoTo(WidthOf(ret.arg[1])) = 0

\* The string "300" parsed for an int8 option: 300 - 256 = 44.
C22_Witness ==
    /\ OutOfRangeInput
    /\ ret.arg = <<"int8", StrV(<<"3", "0", "0">>)>>
    /\ ret.val = NumV("int8", 44)

\* ------------------------------------------------------------------------
\* Properties of propertyParser.Parse (SpecF)
\* ------------------------------------------------------------------------

\* C30: for every file content, a value that ends in a backslash and is
\* continued by the last line of the file or by an empty line included,
\* propertyParser.Parse returns nil or an error and does not panic on an
\* index out of range.
C30_PropertyParseNeverPanics ==
    ret.call = "propertyParser.Parse" => ret.out \in {"nil", "error"}

====
